---- MODULE Spec2Model ----
(***************************************************************************)
(* State-machine model of the `blogs` social module of the subsocial       *)
(* runtime (src/src/social/blogs.rs).                                      *)
(*                                                                         *)
(* The storage of the module is one record, `store`, with one field per    *)
(* item of decl_storage!.  A dispatchable runs to completion, but storage  *)
(* writes are immediate and are not rolled back when the dispatchable      *)
(* returns Err: every handler below is an operator from a store to a       *)
(* result [st, ok, err] whose `st` holds every write made before the       *)
(* return, also on the error paths.                                        *)
(***************************************************************************)
EXTENDS Integers, Sequences, FiniteSets, TLC

VARIABLES
  store,            \* the storage of the module
  result,           \* how the last call ended: "Ok", "Err" or "Panic" ("None" before any call)
  steps,            \* number of calls made
  overflow_checks,  \* whether the build panics on arithmetic overflow (debug) or wraps (release)
  given_reputation, \* the reputation handed to a direct call of get_score_diff
  score_diffs       \* the result of that call for each scoring action (None before the call)

vars == <<store, result, steps, overflow_checks, given_reputation, score_diffs>>

(***************************************************************************)
(* Bounds of the model.                                                    *)
(***************************************************************************)
NumAccounts == 2
MaxBlogs == 2
MaxPosts == 2
MaxComments == 2
MaxReactions == 2
MaxSteps == 4
MaxStepsPublic == 4
MaxStepsFollow == 4
MaxStepsAccounts == 3
MaxStepsVote == 5
MaxStepsReact == 7
MaxStepsBlog == 4
MaxStepsShare == 5
MaxPostsShare == 3
MaxReputation == 65536
\* Largest exponent r of the sampled reputations 2^r + e.
MaxLog2 == 30
\* Multisig wallets: the accounts that sign, the wallets, the transactions,
\* the calls of a behaviour and the free balance each wallet account starts
\* with.
MaxOwners == 3
MaxWallets == 2
MaxTxs == 2
MaxStepsWallet == 5
WalletFunds == 2
MaxReactionsReact == 3
MaxStepsProfile == 4
MaxStepsPost == 5

Accounts == 1..NumAccounts
BlogIds == 1..MaxBlogs
PostIds == 1..MaxPosts
CommentIds == 1..MaxComments
ReactionIds == 1..MaxReactions

(***************************************************************************)
(* Program constants.                                                      *)
(***************************************************************************)
DEFAULT_SLUG_MAX_LEN == 50
DEFAULT_SLUG_MIN_LEN == 5
DEFAULT_IPFS_HASH_LEN == 46
DEFAULT_USERNAME_MAX_LEN == 24
DEFAULT_USERNAME_MIN_LEN == 3

DEFAULT_UPVOTE_POST_ACTION_WEIGHT == 5
DEFAULT_DOWNVOTE_POST_ACTION_WEIGHT == -3
DEFAULT_SHARE_POST_ACTION_WEIGHT == 5
DEFAULT_CREATE_COMMENT_ACTION_WEIGHT == 5
DEFAULT_UPVOTE_COMMENT_ACTION_WEIGHT == 4
DEFAULT_DOWNVOTE_COMMENT_ACTION_WEIGHT == -2
DEFAULT_SHARE_COMMENT_ACTION_WEIGHT == 3
DEFAULT_FOLLOW_BLOG_ACTION_WEIGHT == 7
DEFAULT_FOLLOW_ACCOUNT_ACTION_WEIGHT == 3

\* The error messages of the module, one field per MSG_* constant.
MSG == [
  BLOG_NOT_FOUND                            |-> "Blog was not found by id",
  BLOG_SLUG_IS_TOO_SHORT                    |-> "Blog slug is too short",
  BLOG_SLUG_IS_TOO_LONG                     |-> "Blog slug is too long",
  BLOG_SLUG_IS_NOT_UNIQUE                   |-> "Blog slug is not unique",
  NOTHING_TO_UPDATE_IN_BLOG                 |-> "Nothing to update in a blog",
  ONLY_BLOG_OWNER_CAN_UPDATE_BLOG           |-> "Only a blog owner can update their blog",
  POST_NOT_FOUND                            |-> "Post was not found by id",
  NOTHING_TO_UPDATE_IN_POST                 |-> "Nothing to update in a post",
  ONLY_POST_OWNER_CAN_UPDATE_POST           |-> "Only post owner can update their post",
  OVERFLOW_ADDING_POST_ON_BLOG              |-> "Overflow adding post on blog",
  COMMENT_NOT_FOUND                         |-> "Comment was not found by id",
  UNKNOWN_PARENT_COMMENT                    |-> "Unknown parent comment id",
  ONLY_COMMENT_AUTHOR_CAN_UPDATE_COMMENT    |-> "Only comment author can update their comment",
  NEW_COMMENT_HASH_DO_NOT_DIFFER            |-> "New comment IPFS-hash is the same as old one",
  OVERFLOW_ADDING_COMMENT_ON_POST           |-> "Overflow adding comment on post",
  OVERFLOW_REPLYING_ON_COMMENT              |-> "Overflow replying on comment",
  REACTION_NOT_FOUND                        |-> "Reaction was not found by id",
  ACCOUNT_ALREADY_REACTED_TO_POST           |-> "Account has already reacted to this post",
  ACCOUNT_HAS_NOT_REACTED_TO_POST           |-> "Account has not reacted to this post yet",
  NO_POST_REACTION_BY_ACCOUNT_TO_DELETE     |-> "There is no post reaction by account that could be deleted",
  OVERFLOW_UPVOTING_POST                    |-> "Overflow upvoting post",
  OVERFLOW_DOWNVOTING_POST                  |-> "Overflow downvoting post",
  ACCOUNT_ALREADY_REACTED_TO_COMMENT        |-> "Account has already reacted to this comment",
  ACCOUNT_HAS_NOT_REACTED_TO_COMMENT        |-> "Account has not reacted to this comment yet",
  NO_COMMENT_REACTION_BY_ACCOUNT_TO_DELETE  |-> "There is no comment reaction by account that could be deleted",
  OVERFLOW_UPVOTING_COMMENT                 |-> "Overflow upvoting comment",
  OVERFLOW_DOWNVOTING_COMMENT               |-> "Overflow downvoting comment",
  ONLY_REACTION_OWNER_CAN_UPDATE_REACTION   |-> "Only reaction owner can update their reaction",
  NEW_REACTION_KIND_DO_NOT_DIFFER           |-> "New reaction kind is the same as old one",
  ACCOUNT_IS_FOLLOWING_BLOG                 |-> "Account is already following this blog",
  ACCOUNT_IS_NOT_FOLLOWING_BLOG             |-> "Account is not following this blog",
  ACCOUNT_CANNOT_FOLLOW_ITSELF              |-> "Account can not follow itself",
  ACCOUNT_CANNOT_UNFOLLOW_ITSELF            |-> "Account can not unfollow itself",
  ACCOUNT_IS_ALREADY_FOLLOWED               |-> "Account is already followed",
  ACCOUNT_IS_NOT_FOLLOWED                   |-> "Account is not followed by follower",
  UNDERFLOW_UNFOLLOWING_BLOG                |-> "Underflow unfollowing blog",
  OVERFLOW_FOLLOWING_BLOG                   |-> "Overflow following blog",
  OVERFLOW_FOLLOWING_ACCOUNT                |-> "Overflow following account",
  UNDERFLOW_UNFOLLOWING_ACCOUNT             |-> "Overflow following account",
  SOCIAL_ACCOUNT_NOT_FOUND                  |-> "Social account was not found by id",
  FOLLOWER_ACCOUNT_NOT_FOUND                |-> "Follower social account was not found by id",
  FOLLOWED_ACCOUNT_NOT_FOUND                |-> "Followed social account was not found by id",
  IPFS_IS_INCORRECT                         |-> "IPFS-hash is not correct",
  OUT_OF_BOUNDS_UPDATING_BLOG_SCORE         |-> "Out of bounds updating blog score",
  OUT_OF_BOUNDS_REVERTING_BLOG_SCORE        |-> "Out of bounds reverting blog score",
  OUT_OF_BOUNDS_UPDATING_POST_SCORE         |-> "Out of bounds updating post score",
  OUT_OF_BOUNDS_REVERTING_POST_SCORE        |-> "Out of bounds reverting post score",
  OUT_OF_BOUNDS_UPDATING_COMMENT_SCORE      |-> "Out of bounds updating comment score",
  OUT_OF_BOUNDS_REVERTING_COMMENT_SCORE     |-> "Out of bounds reverting comment score",
  OUT_OF_BOUNDS_UPDATING_ACCOUNT_REPUTATION |-> "Out of bounds updating social account reputation",
  REPUTATION_DIFF_NOT_FOUND                 |-> "Scored account reputation difference by account and action not found",
  ORIGINAL_POST_NOT_FOUND                   |-> "Original post not found when sharing",
  OVERFLOW_TOTAL_SHARES_SHARING_POST        |-> "Overflow total shares counter when sharing post",
  OVERFLOW_POST_SHARES_BY_ACCOUNT           |-> "Overflow shares by account counter when sharing post",
  CANNOT_SHARE_SHARED_POST                  |-> "Cannot share post that is not regular post",
  ORIGINAL_COMMENT_NOT_FOUND                |-> "Original comment not found when sharing",
  OVERFLOW_TOTAL_SHARES_SHARING_COMMENT     |-> "Overflow total shares counter when sharing comment",
  OVERFLOW_COMMENT_SHARES_BY_ACCOUNT        |-> "Overflow shares by account counter when sharing comment",
  PROFILE_ALREADY_EXISTS                    |-> "Profile for this account already exists",
  NOTHING_TO_UPDATE_IN_PROFILE              |-> "Nothing to update in a profile",
  PROFILE_DOESNT_EXIST                      |-> "Account has no profile yet",
  USERNAME_IS_BUSY                          |-> "Profile username is busy",
  USERNAME_TOO_SHORT                        |-> "Username is too short",
  USERNAME_TOO_LONG                         |-> "Username is too long",
  USERNAME_NOT_ALPHANUMERIC                 |-> "Username is not alphanumeric" ]

\* A Rust panic (failed assert!, or arithmetic overflow in a build with
\* overflow checks): the dispatchable does not return.
PANIC == "panic"

(***************************************************************************)
(* Option<T>: None is the empty sequence, Some(v) is <<v>>.                *)
(***************************************************************************)
None == <<>>
Some(v) == <<v>>
is_some(o) == o /= <<>>
is_none(o) == o = <<>>
unwrap(o) == o[1]

(***************************************************************************)
(* Storage maps: a function whose domain is the set of keys present.       *)
(***************************************************************************)
EmptyMap == <<>>
exists(m, k) == k \in DOMAIN m
get(m, k, default) == IF k \in DOMAIN m THEN m[k] ELSE default
insert(m, k, v) == [x \in (DOMAIN m) \cup {k} |-> IF x = k THEN v ELSE m[x]]
remove(m, k) == [x \in (DOMAIN m) \ {k} |-> m[x]]

(***************************************************************************)
(* Fixed-width arithmetic.  The checked operations return an Option.       *)
(* The comparisons are arranged so that no intermediate value leaves the   *)
(* 32-bit signed range in which the model's integers are evaluated.        *)
(***************************************************************************)
U16_MAX == 2^16 - 1
I16_MAX == 2^15 - 1
I16_MIN == 0 - 2^15
I32_MAX == (2^30 - 1) + 2^30
I32_MIN == (0 - I32_MAX) - 1

checked_add_u16(a, b) == IF a > U16_MAX - b THEN None ELSE Some(a + b)
checked_sub_u16(a, b) == IF a < b THEN None ELSE Some(a - b)
\* u32: a + b > 2^32 - 1 iff floor((a + b) / 2) > 2^31 - 1.
checked_add_u32(a, b) ==
  IF (a \div 2) + (b \div 2) + (((a % 2) + (b % 2)) \div 2) > I32_MAX THEN None ELSE Some(a + b)
checked_sub_u32(a, b) == IF a < b THEN None ELSE Some(a - b)
checked_add_i32(a, b) ==
  IF b > 0 /\ a > I32_MAX - b THEN None
  ELSE IF b < 0 /\ a < I32_MIN - b THEN None
  ELSE Some(a + b)
checked_sub_i32(a, b) ==
  IF b < 0 /\ a > I32_MAX + b THEN None
  ELSE IF b > 0 /\ a < I32_MIN + b THEN None
  ELSE Some(a - b)

\* Unchecked `x += 1` / `x -= 1` on a u16: a panic when the build checks
\* overflow, a wrap-around otherwise.  None stands for the panic.
add_u16(oc, a, b) == IF a + b > U16_MAX THEN (IF oc THEN None ELSE Some((a + b) % (U16_MAX + 1))) ELSE Some(a + b)
sub_u16(oc, a, b) == IF a < b THEN (IF oc THEN None ELSE Some((a - b) + (U16_MAX + 1))) ELSE Some(a - b)
\* Unchecked `x * -1` on an i16: only i16::MIN overflows (and wraps to itself).
neg_i16(oc, x) == IF x = I16_MIN THEN (IF oc THEN None ELSE Some(I16_MIN)) ELSE Some(0 - x)

(***************************************************************************)
(* Results of a handler.                                                   *)
(***************************************************************************)
Ok(s) == [st |-> s, ok |-> TRUE, err |-> ""]
Err(s, msg) == [st |-> s, ok |-> FALSE, err |-> msg]

(***************************************************************************)
(* Enumerations.                                                           *)
(***************************************************************************)
UpvotePost == "UpvotePost"
DownvotePost == "DownvotePost"
SharePost == "SharePost"
CreateComment == "CreateComment"
UpvoteComment == "UpvoteComment"
DownvoteComment == "DownvoteComment"
ShareComment == "ShareComment"
FollowBlog == "FollowBlog"
FollowAccount == "FollowAccount"
ScoringAction == {UpvotePost, DownvotePost, SharePost, CreateComment, UpvoteComment,
                  DownvoteComment, ShareComment, FollowBlog, FollowAccount}

Upvote == "Upvote"
Downvote == "Downvote"
ReactionKind == {Upvote, Downvote}

RegularPost == <<"RegularPost">>
SharedPost(post_id) == <<"SharedPost", post_id>>
SharedComment(comment_id) == <<"SharedComment", comment_id>>

(***************************************************************************)
(* Byte vectors (slugs, usernames, IPFS hashes) are sequences of bytes.    *)
(***************************************************************************)
Bytes(n, c) == [i \in 1..n |-> c]

is_ascii_alphanumeric(x) == (x >= 48 /\ x <= 57) \/ (x >= 65 /\ x <= 90) \/ (x >= 97 /\ x <= 122)

(***************************************************************************)
(* The storage after construction (decl_storage! defaults).                *)
(***************************************************************************)
InitStore ==
  [ BlogById |-> EmptyMap, PostById |-> EmptyMap, CommentById |-> EmptyMap,
    ReactionById |-> EmptyMap, SocialAccountById |-> EmptyMap,
    BlogIdsByOwner |-> EmptyMap, PostIdsByBlogId |-> EmptyMap, CommentIdsByPostId |-> EmptyMap,
    ReactionIdsByPostId |-> EmptyMap, ReactionIdsByCommentId |-> EmptyMap,
    PostReactionIdByAccount |-> EmptyMap, CommentReactionIdByAccount |-> EmptyMap,
    BlogIdBySlug |-> EmptyMap,
    BlogsFollowedByAccount |-> EmptyMap, BlogFollowers |-> EmptyMap, BlogFollowedByAccount |-> EmptyMap,
    AccountFollowedByAccount |-> EmptyMap, AccountsFollowedByAccount |-> EmptyMap,
    AccountFollowers |-> EmptyMap,
    NextBlogId |-> 1, NextPostId |-> 1, NextCommentId |-> 1, NextReactionId |-> 1,
    AccountReputationDiffByAccount |-> EmptyMap, PostScoreByAccount |-> EmptyMap,
    CommentScoreByAccount |-> EmptyMap,
    PostSharesByAccount |-> EmptyMap, SharedPostIdsByOriginalPostId |-> EmptyMap,
    CommentSharesByAccount |-> EmptyMap, SharedPostIdsByOriginalCommentId |-> EmptyMap,
    AccountByProfileUsername |-> EmptyMap ]

\* StorageMap::mutate on a Vec-valued map: read (default: empty), change, write back.
mutate_push(m, k, e) == insert(m, k, Append(get(m, k, <<>>), e))


(***************************************************************************)
(* Helpers of the module.                                                  *)
(***************************************************************************)
new_change(account) == [account |-> account]

get_or_new_social_account(s, account) ==
  IF exists(s.SocialAccountById, account)
  THEN s.SocialAccountById[account]
  ELSE [followers_count |-> 0, following_accounts_count |-> 0, following_blogs_count |-> 0,
        reputation |-> 1, profile |-> None]

\* Vec::swap_remove of the first occurrence: the last element takes its place.
vec_remove_on(vector, element) ==
  IF \E i \in 1..Len(vector) : vector[i] = element
  THEN LET index == CHOOSE i \in 1..Len(vector) :
                      vector[i] = element /\ \A j \in 1..(i - 1) : vector[j] /= element
           n == Len(vector)
       IN SubSeq([vector EXCEPT ![index] = vector[n]], 1, n - 1)
  ELSE vector

mutate_remove(m, k, e) == insert(m, k, vec_remove_on(get(m, k, <<>>), e))

ensure_blog_exists(s, blog_id) == exists(s.BlogById, blog_id)

is_ipfs_hash_valid(ipfs_hash) == Len(ipfs_hash) = DEFAULT_IPFS_HASH_LEN

\* The error of is_username_valid, or "" when the username is valid.
is_username_valid(s, username) ==
  IF exists(s.AccountByProfileUsername, username) THEN MSG.USERNAME_IS_BUSY
  ELSE IF Len(username) < DEFAULT_USERNAME_MIN_LEN THEN MSG.USERNAME_TOO_SHORT
  ELSE IF Len(username) > DEFAULT_USERNAME_MAX_LEN THEN MSG.USERNAME_TOO_LONG
  ELSE IF ~(\A i \in 1..Len(username) : is_ascii_alphanumeric(username[i])) THEN MSG.USERNAME_NOT_ALPHANUMERIC
  ELSE ""

(***************************************************************************)
(* Scoring.                                                                *)
(***************************************************************************)
weight_of_scoring_action(action) ==
  CASE action = UpvotePost -> DEFAULT_UPVOTE_POST_ACTION_WEIGHT
    [] action = DownvotePost -> DEFAULT_DOWNVOTE_POST_ACTION_WEIGHT
    [] action = SharePost -> DEFAULT_SHARE_POST_ACTION_WEIGHT
    [] action = CreateComment -> DEFAULT_CREATE_COMMENT_ACTION_WEIGHT
    [] action = UpvoteComment -> DEFAULT_UPVOTE_COMMENT_ACTION_WEIGHT
    [] action = DownvoteComment -> DEFAULT_DOWNVOTE_COMMENT_ACTION_WEIGHT
    [] action = ShareComment -> DEFAULT_SHARE_COMMENT_ACTION_WEIGHT
    [] action = FollowBlog -> DEFAULT_FOLLOW_BLOG_ACTION_WEIGHT
    [] action = FollowAccount -> DEFAULT_FOLLOW_ACCOUNT_ACTION_WEIGHT

num_bits_u32 == 4 * 8

RECURSIVE bit_length(_)
bit_length(x) == IF x = 0 THEN 0 ELSE 1 + bit_length(x \div 2)

leading_zeros(x) == num_bits_u32 - bit_length(x)

\* Defined for x > 0 (the code asserts it).
log_2(x) == num_bits_u32 - leading_zeros(x) - 1

\* get_score_diff with r in the place of r + 1 (line 1286).
get_score_diff_no_offset(reputation, action) ==
  LET r == log_2(reputation)
      d == ((reputation - 2^r) * 100) \div (2^r)
      score_diff == (r * 100 + d) \div 100
  IN score_diff * weight_of_scoring_action(action)

\* Evaluated for reputations whose scaled excess (reputation - 2^r) * 100
\* stays below 2^31.
get_score_diff(reputation, action) ==
  LET r == log_2(reputation)
      d == ((reputation - 2^r) * 100) \div (2^r)
      score_diff == ((r + 1) * 100 + d) \div 100
  IN score_diff * weight_of_scoring_action(action)

\* Unchecked `a * b` on u32, for a < 2^31 and b < 2^15, computed on 16-bit
\* halves so that no intermediate value leaves the 32-bit signed range:
\* the wrapped product is high * 2^16 + low, `overflow` tells whether the
\* true product exceeds u32::MAX.
overflowing_mul_u32(a, b) ==
  LET low == (a % 2^16) * b
      high == (a \div 2^16) * b + low \div 2^16
  IN [high |-> high % 2^16, low |-> low % 2^16, overflow |-> high >= 2^16]

\* `x / 2.pow(r)` on a u32 held as 16-bit halves.
div_pow2(x, r) ==
  IF r >= 16 THEN x.high \div 2^(r - 16)
  ELSE x.high * 2^(16 - r) + x.low \div 2^r

\* get_score_diff in u32 arithmetic: the product of line 1285 panics when
\* the build checks overflow (None) and wraps around otherwise.
get_score_diff_u32(oc, reputation, action) ==
  LET r == log_2(reputation)
      product == overflowing_mul_u32(reputation - 2^r, 100)
      d == div_pow2(product, r)
      score_diff == ((r + 1) * 100 + d) \div 100
  IN IF product.overflow /\ oc THEN None
     ELSE Some(score_diff * weight_of_scoring_action(action))

\* change_social_account_reputation without the floor of lines 1259-1262.
change_social_account_reputation_no_floor(s, oc, account, scorer, score_diff, action) ==
  LET social_account == get_or_new_social_account(s, account)
      negated == neg_i16(oc, score_diff)
      new_reputation ==
        IF score_diff < 0
        THEN (IF unwrap(negated) < 0 THEN None ELSE checked_sub_u32(social_account.reputation, unwrap(negated)))
        ELSE checked_add_u32(social_account.reputation, score_diff)
      key == <<scorer, account, action>>
  IN IF score_diff < 0 /\ is_none(negated) THEN Err(s, PANIC)
     ELSE IF is_none(new_reputation) THEN Err(s, MSG.OUT_OF_BOUNDS_UPDATING_ACCOUNT_REPUTATION)
     ELSE LET s1 == IF exists(s.AccountReputationDiffByAccount, key)
                    THEN [s EXCEPT !.AccountReputationDiffByAccount = remove(@, key)]
                    ELSE [s EXCEPT !.AccountReputationDiffByAccount = insert(@, key, score_diff)]
          IN Ok([s1 EXCEPT !.SocialAccountById =
                   insert(@, account, [social_account EXCEPT !.reputation = unwrap(new_reputation)])])

change_social_account_reputation(s, oc, account, scorer, score_diff_in, action) ==
  LET social_account == get_or_new_social_account(s, account)
      clamp == social_account.reputation + score_diff_in <= 1
      reputation0 == IF clamp THEN 1 ELSE social_account.reputation
      score_diff == IF clamp THEN 0 ELSE score_diff_in
      negated == neg_i16(oc, score_diff)
      \* `(score_diff * -1) as u32` of a wrapped i16::MIN is 2^32 - 2^15, above
      \* every reputation the model holds, so checked_sub fails on it.
      new_reputation ==
        IF score_diff < 0
        THEN (IF unwrap(negated) < 0 THEN None ELSE checked_sub_u32(reputation0, unwrap(negated)))
        ELSE checked_add_u32(reputation0, score_diff)
      key == <<scorer, account, action>>
  IN IF score_diff < 0 /\ is_none(negated) THEN Err(s, PANIC)
     ELSE IF is_none(new_reputation) THEN Err(s, MSG.OUT_OF_BOUNDS_UPDATING_ACCOUNT_REPUTATION)
     ELSE LET s1 == IF exists(s.AccountReputationDiffByAccount, key)
                    THEN [s EXCEPT !.AccountReputationDiffByAccount = remove(@, key)]
                    ELSE [s EXCEPT !.AccountReputationDiffByAccount = insert(@, key, score_diff)]
          IN Ok([s1 EXCEPT !.SocialAccountById =
                   insert(@, account, [social_account EXCEPT !.reputation = unwrap(new_reputation)])])

\* Results of the two score operations carry the caller's `&mut` entity.
OkE(s, e) == [st |-> s, ok |-> TRUE, err |-> "", entity |-> e]
ErrE(s, msg, e) == [st |-> s, ok |-> FALSE, err |-> msg, entity |-> e]

\* change_post_score without the reversal of the opposite vote (lines 1190-1202).
change_post_score_no_cancel(s, oc, account, post, action) ==
  LET social_account == get_or_new_social_account(s, account)
      post_id == post.id
      creator == post.created.account
  IN IF ~exists(s.BlogById, post.blog_id) THEN ErrE(s, MSG.BLOG_NOT_FOUND, post)
     ELSE IF creator = account THEN OkE(s, post)
     ELSE
       LET blog == s.BlogById[post.blog_id]
           key == <<account, post_id, action>>
       IN IF exists(s.PostScoreByAccount, key)
          THEN \* reversal of a recorded score
            LET score_diff == s.PostScoreByAccount[key]
                rkey == <<account, creator, action>>
            IN IF ~exists(s.AccountReputationDiffByAccount, rkey)
               THEN ErrE(s, MSG.REPUTATION_DIFF_NOT_FOUND, post)
               ELSE
                 LET reputation_diff == s.AccountReputationDiffByAccount[rkey]
                     post_score == checked_add_i32(post.score, score_diff * (0 - 1))
                     blog_score == checked_add_i32(blog.score, score_diff * (0 - 1))
                     negated == neg_i16(oc, reputation_diff)
                 IN IF is_none(post_score) THEN ErrE(s, MSG.OUT_OF_BOUNDS_REVERTING_POST_SCORE, post)
                    ELSE LET post1 == [post EXCEPT !.score = unwrap(post_score)]
                         IN IF is_none(blog_score) THEN ErrE(s, MSG.OUT_OF_BOUNDS_REVERTING_BLOG_SCORE, post1)
                            ELSE IF is_none(negated) THEN ErrE(s, PANIC, post1)
                            ELSE
                              LET then(r) ==
                                    IF ~r.ok THEN ErrE(r.st, r.err, post1)
                                    ELSE OkE([r.st EXCEPT
                                               !.PostScoreByAccount = remove(@, key),
                                               !.PostById = insert(@, post_id, post1),
                                               !.BlogById = insert(@, post1.blog_id,
                                                                   [blog EXCEPT !.score = unwrap(blog_score)])],
                                             post1)
                              IN then(change_social_account_reputation(s, oc, creator, account,
                                                                       unwrap(negated), action))
          ELSE \* first application
            LET \* `social_account` and `blog` are the copies read on entry
                score_diff == get_score_diff(social_account.reputation, action)
                blog_score == checked_add_i32(blog.score, score_diff)
                scored(s1, post2) ==
                  LET then(r) ==
                        IF ~r.ok THEN ErrE(r.st, r.err, post2)
                        ELSE OkE([r.st EXCEPT
                                   !.PostScoreByAccount = insert(@, key, score_diff),
                                   !.PostById = insert(@, post_id, post2),
                                   !.BlogById = insert(@, post2.blog_id,
                                                       [blog EXCEPT !.score = unwrap(blog_score)])],
                                 post2)
                  IN then(change_social_account_reputation(s1, oc, creator, account, score_diff, action))
                apply(s1, post1, post_score) ==
                  IF is_none(post_score) THEN ErrE(s1, MSG.OUT_OF_BOUNDS_UPDATING_POST_SCORE, post1)
                  ELSE IF is_none(blog_score)
                  THEN ErrE(s1, MSG.OUT_OF_BOUNDS_UPDATING_BLOG_SCORE, [post1 EXCEPT !.score = unwrap(post_score)])
                  ELSE scored(s1, [post1 EXCEPT !.score = unwrap(post_score)])
                after(nested) ==
                  IF ~nested.ok THEN nested
                  ELSE apply(nested.st, nested.entity, checked_add_i32(nested.entity.score, score_diff))
            IN after(OkE(s, post))

\* change_post_score without the test of line 1182: the creator of the post
\* is scored like every other account.
RECURSIVE change_post_score_scores_creator(_, _, _, _, _)
change_post_score_scores_creator(s, oc, account, post, action) ==
  LET social_account == get_or_new_social_account(s, account)
      post_id == post.id
      creator == post.created.account
  IN IF ~exists(s.BlogById, post.blog_id) THEN ErrE(s, MSG.BLOG_NOT_FOUND, post)
     ELSE
       LET blog == s.BlogById[post.blog_id]
           key == <<account, post_id, action>>
       IN IF exists(s.PostScoreByAccount, key)
          THEN \* reversal of a recorded score
            LET score_diff == s.PostScoreByAccount[key]
                rkey == <<account, creator, action>>
            IN IF ~exists(s.AccountReputationDiffByAccount, rkey)
               THEN ErrE(s, MSG.REPUTATION_DIFF_NOT_FOUND, post)
               ELSE
                 LET reputation_diff == s.AccountReputationDiffByAccount[rkey]
                     post_score == checked_add_i32(post.score, score_diff * (0 - 1))
                     blog_score == checked_add_i32(blog.score, score_diff * (0 - 1))
                     negated == neg_i16(oc, reputation_diff)
                 IN IF is_none(post_score) THEN ErrE(s, MSG.OUT_OF_BOUNDS_REVERTING_POST_SCORE, post)
                    ELSE LET post1 == [post EXCEPT !.score = unwrap(post_score)]
                         IN IF is_none(blog_score) THEN ErrE(s, MSG.OUT_OF_BOUNDS_REVERTING_BLOG_SCORE, post1)
                            ELSE IF is_none(negated) THEN ErrE(s, PANIC, post1)
                            ELSE
                              LET then(r) ==
                                    IF ~r.ok THEN ErrE(r.st, r.err, post1)
                                    ELSE OkE([r.st EXCEPT
                                               !.PostScoreByAccount = remove(@, key),
                                               !.PostById = insert(@, post_id, post1),
                                               !.BlogById = insert(@, post1.blog_id,
                                                                   [blog EXCEPT !.score = unwrap(blog_score)])],
                                             post1)
                              IN then(change_social_account_reputation(s, oc, creator, account,
                                                                       unwrap(negated), action))
          ELSE \* first application; an opposite vote is reverted first
            LET opposite == IF action = UpvotePost THEN DownvotePost
                            ELSE IF action = DownvotePost THEN UpvotePost
                            ELSE action
                \* `social_account` and `blog` are the copies read on entry
                score_diff == get_score_diff(social_account.reputation, action)
                blog_score == checked_add_i32(blog.score, score_diff)
                scored(s1, post2) ==
                  LET then(r) ==
                        IF ~r.ok THEN ErrE(r.st, r.err, post2)
                        ELSE OkE([r.st EXCEPT
                                   !.PostScoreByAccount = insert(@, key, score_diff),
                                   !.PostById = insert(@, post_id, post2),
                                   !.BlogById = insert(@, post2.blog_id,
                                                       [blog EXCEPT !.score = unwrap(blog_score)])],
                                 post2)
                  IN then(change_social_account_reputation(s1, oc, creator, account, score_diff, action))
                apply(s1, post1, post_score) ==
                  IF is_none(post_score) THEN ErrE(s1, MSG.OUT_OF_BOUNDS_UPDATING_POST_SCORE, post1)
                  ELSE IF is_none(blog_score)
                  THEN ErrE(s1, MSG.OUT_OF_BOUNDS_UPDATING_BLOG_SCORE, [post1 EXCEPT !.score = unwrap(post_score)])
                  ELSE scored(s1, [post1 EXCEPT !.score = unwrap(post_score)])
                after(nested) ==
                  IF ~nested.ok THEN nested
                  ELSE apply(nested.st, nested.entity, checked_add_i32(nested.entity.score, score_diff))
            IN after(IF opposite /= action /\ exists(s.PostScoreByAccount, <<account, post_id, opposite>>)
                     THEN change_post_score_scores_creator(s, oc, account, post, opposite)
                     ELSE OkE(s, post))

RECURSIVE change_post_score(_, _, _, _, _)
change_post_score(s, oc, account, post, action) ==
  LET social_account == get_or_new_social_account(s, account)
      post_id == post.id
      creator == post.created.account
  IN IF ~exists(s.BlogById, post.blog_id) THEN ErrE(s, MSG.BLOG_NOT_FOUND, post)
     ELSE IF creator = account THEN OkE(s, post)
     ELSE
       LET blog == s.BlogById[post.blog_id]
           key == <<account, post_id, action>>
       IN IF exists(s.PostScoreByAccount, key)
          THEN \* reversal of a recorded score
            LET score_diff == s.PostScoreByAccount[key]
                rkey == <<account, creator, action>>
            IN IF ~exists(s.AccountReputationDiffByAccount, rkey)
               THEN ErrE(s, MSG.REPUTATION_DIFF_NOT_FOUND, post)
               ELSE
                 LET reputation_diff == s.AccountReputationDiffByAccount[rkey]
                     post_score == checked_add_i32(post.score, score_diff * (0 - 1))
                     blog_score == checked_add_i32(blog.score, score_diff * (0 - 1))
                     negated == neg_i16(oc, reputation_diff)
                 IN IF is_none(post_score) THEN ErrE(s, MSG.OUT_OF_BOUNDS_REVERTING_POST_SCORE, post)
                    ELSE LET post1 == [post EXCEPT !.score = unwrap(post_score)]
                         IN IF is_none(blog_score) THEN ErrE(s, MSG.OUT_OF_BOUNDS_REVERTING_BLOG_SCORE, post1)
                            ELSE IF is_none(negated) THEN ErrE(s, PANIC, post1)
                            ELSE
                              LET then(r) ==
                                    IF ~r.ok THEN ErrE(r.st, r.err, post1)
                                    ELSE OkE([r.st EXCEPT
                                               !.PostScoreByAccount = remove(@, key),
                                               !.PostById = insert(@, post_id, post1),
                                               !.BlogById = insert(@, post1.blog_id,
                                                                   [blog EXCEPT !.score = unwrap(blog_score)])],
                                             post1)
                              IN then(change_social_account_reputation(s, oc, creator, account,
                                                                       unwrap(negated), action))
          ELSE \* first application; an opposite vote is reverted first
            LET opposite == IF action = UpvotePost THEN DownvotePost
                            ELSE IF action = DownvotePost THEN UpvotePost
                            ELSE action
                \* `social_account` and `blog` are the copies read on entry
                score_diff == get_score_diff(social_account.reputation, action)
                blog_score == checked_add_i32(blog.score, score_diff)
                scored(s1, post2) ==
                  LET then(r) ==
                        IF ~r.ok THEN ErrE(r.st, r.err, post2)
                        ELSE OkE([r.st EXCEPT
                                   !.PostScoreByAccount = insert(@, key, score_diff),
                                   !.PostById = insert(@, post_id, post2),
                                   !.BlogById = insert(@, post2.blog_id,
                                                       [blog EXCEPT !.score = unwrap(blog_score)])],
                                 post2)
                  IN then(change_social_account_reputation(s1, oc, creator, account, score_diff, action))
                apply(s1, post1, post_score) ==
                  IF is_none(post_score) THEN ErrE(s1, MSG.OUT_OF_BOUNDS_UPDATING_POST_SCORE, post1)
                  ELSE IF is_none(blog_score)
                  THEN ErrE(s1, MSG.OUT_OF_BOUNDS_UPDATING_BLOG_SCORE, [post1 EXCEPT !.score = unwrap(post_score)])
                  ELSE scored(s1, [post1 EXCEPT !.score = unwrap(post_score)])
                after(nested) ==
                  IF ~nested.ok THEN nested
                  ELSE apply(nested.st, nested.entity, checked_add_i32(nested.entity.score, score_diff))
            IN after(IF opposite /= action /\ exists(s.PostScoreByAccount, <<account, post_id, opposite>>)
                     THEN change_post_score(s, oc, account, post, opposite)
                     ELSE OkE(s, post))

RECURSIVE change_comment_score(_, _, _, _, _)
change_comment_score(s, oc, account, comment, action) ==
  LET social_account == get_or_new_social_account(s, account)
      comment_id == comment.id
      creator == comment.created.account
      key == <<account, comment_id, action>>
  IN IF creator = account THEN OkE(s, comment)
     ELSE IF exists(s.CommentScoreByAccount, key)
     THEN
       LET score_diff == s.CommentScoreByAccount[key]
           rkey == <<account, creator, action>>
       IN IF ~exists(s.AccountReputationDiffByAccount, rkey)
          THEN ErrE(s, MSG.REPUTATION_DIFF_NOT_FOUND, comment)
          ELSE
            LET reputation_diff == s.AccountReputationDiffByAccount[rkey]
                comment_score == checked_add_i32(comment.score, score_diff * (0 - 1))
                negated == neg_i16(oc, reputation_diff)
            IN IF is_none(comment_score) THEN ErrE(s, MSG.OUT_OF_BOUNDS_REVERTING_COMMENT_SCORE, comment)
               ELSE LET comment1 == [comment EXCEPT !.score = unwrap(comment_score)]
                    IN IF is_none(negated) THEN ErrE(s, PANIC, comment1)
                       ELSE
                         LET then(r) ==
                               IF ~r.ok THEN ErrE(r.st, r.err, comment1)
                               ELSE OkE([r.st EXCEPT
                                          !.CommentScoreByAccount = remove(@, key),
                                          !.CommentById = insert(@, comment_id, comment1)],
                                        comment1)
                         IN then(change_social_account_reputation(s, oc, creator, account,
                                                                  unwrap(negated), action))
     ELSE
       LET opposite == IF action = UpvoteComment THEN DownvoteComment
                       ELSE IF action = DownvoteComment THEN UpvoteComment
                       ELSE action
           score_diff == get_score_diff(social_account.reputation, action)
           scored(s1, comment2) ==
             LET then(r) ==
                   IF ~r.ok THEN ErrE(r.st, r.err, comment2)
                   ELSE OkE([r.st EXCEPT
                              !.CommentScoreByAccount = insert(@, key, score_diff),
                              !.CommentById = insert(@, comment_id, comment2)],
                            comment2)
             IN then(change_social_account_reputation(s1, oc, creator, account, score_diff, action))
           apply(s1, comment1, comment_score) ==
             IF is_none(comment_score) THEN ErrE(s1, MSG.OUT_OF_BOUNDS_UPDATING_COMMENT_SCORE, comment1)
             ELSE scored(s1, [comment1 EXCEPT !.score = unwrap(comment_score)])
           after(nested) ==
             IF ~nested.ok THEN nested
             ELSE apply(nested.st, nested.entity, checked_add_i32(nested.entity.score, score_diff))
           with_entity(p) == [st |-> p.st, ok |-> p.ok, err |-> p.err, entity |-> comment]
       IN after(IF opposite /= action
                THEN (IF exists(s.CommentScoreByAccount, <<account, comment_id, opposite>>)
                      THEN change_comment_score(s, oc, account, comment, opposite)
                      ELSE OkE(s, comment))
                ELSE IF action = CreateComment
                THEN (IF ~exists(s.PostById, comment.post_id)
                      THEN ErrE(s, MSG.POST_NOT_FOUND, comment)
                      ELSE with_entity(change_post_score(s, oc, account, s.PostById[comment.post_id], action)))
                ELSE OkE(s, comment))


(***************************************************************************)
(* Blogs and the follow graph.                                             *)
(***************************************************************************)
add_blog_follower_and_insert_blog(s, oc, follower, blog, is_new_blog) ==
  LET blog_id == blog.id
      social_account == get_or_new_social_account(s, follower)
      following_blogs_count == checked_add_u16(social_account.following_blogs_count, 1)
      followers_count == checked_add_u32(blog.followers_count, 1)
      author == blog.created.account
  IN IF is_none(following_blogs_count) THEN Err(s, MSG.OVERFLOW_FOLLOWING_BLOG)
     ELSE IF is_none(followers_count) THEN Err(s, MSG.OVERFLOW_FOLLOWING_BLOG)
     ELSE
       LET social_account1 == [social_account EXCEPT !.following_blogs_count = unwrap(following_blogs_count)]
           blog1 == [blog EXCEPT !.followers_count = unwrap(followers_count)]
           score_diff == get_score_diff(social_account1.reputation, FollowBlog)
           blog_score == checked_add_i32(blog1.score, score_diff)
           blog2 == IF author /= follower THEN [blog1 EXCEPT !.score = unwrap(blog_score)] ELSE blog1
           then(r) ==
             IF ~r.ok THEN r
             ELSE Ok([r.st EXCEPT
                        !.BlogById = insert(@, blog_id, blog2),
                        !.SocialAccountById = insert(@, follower, social_account1),
                        !.BlogsFollowedByAccount = mutate_push(@, follower, blog_id),
                        !.BlogFollowers = mutate_push(@, blog_id, follower),
                        !.BlogFollowedByAccount = insert(@, <<follower, blog_id>>, TRUE)])
       IN IF author /= follower /\ is_none(blog_score) THEN Err(s, MSG.OUT_OF_BOUNDS_UPDATING_BLOG_SCORE)
          ELSE then(IF author /= follower
                    THEN change_social_account_reputation(s, oc, author, follower, score_diff, FollowBlog)
                    ELSE Ok(s))

\* create_blog without the increment of NextBlogId (line 486).
create_blog_keeps_next_id(s, oc, owner, slug, ipfs_hash) ==
  IF Len(slug) < DEFAULT_SLUG_MIN_LEN THEN Err(s, MSG.BLOG_SLUG_IS_TOO_SHORT)
  ELSE IF Len(slug) > DEFAULT_SLUG_MAX_LEN THEN Err(s, MSG.BLOG_SLUG_IS_TOO_LONG)
  ELSE IF exists(s.BlogIdBySlug, slug) THEN Err(s, MSG.BLOG_SLUG_IS_NOT_UNIQUE)
  ELSE IF ~is_ipfs_hash_valid(ipfs_hash) THEN Err(s, MSG.IPFS_IS_INCORRECT)
  ELSE
    LET blog_id == s.NextBlogId
        new_blog == [id |-> blog_id, created |-> new_change(owner), updated |-> None,
                     writers |-> <<>>, slug |-> slug, ipfs_hash |-> ipfs_hash,
                     posts_count |-> 0, followers_count |-> 0, edit_history |-> <<>>, score |-> 0]
        then(r) ==
          IF ~r.ok THEN r
          ELSE Ok([r.st EXCEPT
                     !.BlogIdsByOwner = mutate_push(@, owner, blog_id),
                     !.BlogIdBySlug = insert(@, slug, blog_id)])
    IN then(add_blog_follower_and_insert_blog(s, oc, owner, new_blog, TRUE))

create_blog(s, oc, owner, slug, ipfs_hash) ==
  IF Len(slug) < DEFAULT_SLUG_MIN_LEN THEN Err(s, MSG.BLOG_SLUG_IS_TOO_SHORT)
  ELSE IF Len(slug) > DEFAULT_SLUG_MAX_LEN THEN Err(s, MSG.BLOG_SLUG_IS_TOO_LONG)
  ELSE IF exists(s.BlogIdBySlug, slug) THEN Err(s, MSG.BLOG_SLUG_IS_NOT_UNIQUE)
  ELSE IF ~is_ipfs_hash_valid(ipfs_hash) THEN Err(s, MSG.IPFS_IS_INCORRECT)
  ELSE
    LET blog_id == s.NextBlogId
        new_blog == [id |-> blog_id, created |-> new_change(owner), updated |-> None,
                     writers |-> <<>>, slug |-> slug, ipfs_hash |-> ipfs_hash,
                     posts_count |-> 0, followers_count |-> 0, edit_history |-> <<>>, score |-> 0]
        then(r) ==
          IF ~r.ok THEN r
          ELSE Ok([r.st EXCEPT
                     !.BlogIdsByOwner = mutate_push(@, owner, blog_id),
                     !.BlogIdBySlug = insert(@, slug, blog_id),
                     !.NextBlogId = @ + 1])
    IN then(add_blog_follower_and_insert_blog(s, oc, owner, new_blog, TRUE))

\* follow_blog without the test of line 492.
follow_blog_unguarded(s, oc, follower, blog_id) ==
  IF ~exists(s.BlogById, blog_id) THEN Err(s, MSG.BLOG_NOT_FOUND)
  ELSE add_blog_follower_and_insert_blog(s, oc, follower, s.BlogById[blog_id], FALSE)

follow_blog(s, oc, follower, blog_id) ==
  IF ~exists(s.BlogById, blog_id) THEN Err(s, MSG.BLOG_NOT_FOUND)
  ELSE IF get(s.BlogFollowedByAccount, <<follower, blog_id>>, FALSE) THEN Err(s, MSG.ACCOUNT_IS_FOLLOWING_BLOG)
  ELSE add_blog_follower_and_insert_blog(s, oc, follower, s.BlogById[blog_id], FALSE)

\* unfollow_blog without the decrement of blog.followers_count (line 508).
unfollow_blog_keeps_count(s, oc, follower, blog_id) ==
  IF ~exists(s.BlogById, blog_id) THEN Err(s, MSG.BLOG_NOT_FOUND)
  ELSE IF ~get(s.BlogFollowedByAccount, <<follower, blog_id>>, FALSE) THEN Err(s, MSG.ACCOUNT_IS_NOT_FOLLOWING_BLOG)
  ELSE IF ~exists(s.SocialAccountById, follower) THEN Err(s, MSG.SOCIAL_ACCOUNT_NOT_FOUND)
  ELSE
    LET blog == s.BlogById[blog_id]
        social_account == s.SocialAccountById[follower]
        following_blogs_count == checked_sub_u16(social_account.following_blogs_count, 1)
        followers_count == checked_sub_u32(blog.followers_count, 1)
        author == blog.created.account
        rkey == <<follower, author, FollowBlog>>
        reverts == author /= follower /\ exists(s.AccountReputationDiffByAccount, rkey)
        score_diff == s.AccountReputationDiffByAccount[rkey]
        blog_score == checked_sub_i32(blog.score, score_diff)
        negated == neg_i16(oc, score_diff)
    IN IF is_none(following_blogs_count) THEN Err(s, MSG.UNDERFLOW_UNFOLLOWING_BLOG)
       ELSE IF is_none(followers_count) THEN Err(s, MSG.UNDERFLOW_UNFOLLOWING_BLOG)
       ELSE IF reverts /\ is_none(blog_score) THEN Err(s, MSG.OUT_OF_BOUNDS_UPDATING_BLOG_SCORE)
       ELSE IF reverts /\ is_none(negated) THEN Err(s, PANIC)
       ELSE
         LET blog1 == [blog EXCEPT !.followers_count = @,
                                   !.score = IF reverts THEN unwrap(blog_score) ELSE @]
             social_account1 == [social_account EXCEPT !.following_blogs_count = unwrap(following_blogs_count)]
             then(r) ==
               IF ~r.ok THEN r
               ELSE Ok([r.st EXCEPT
                          !.BlogsFollowedByAccount = mutate_remove(@, follower, blog_id),
                          !.BlogFollowers = mutate_remove(@, blog_id, follower),
                          !.BlogFollowedByAccount = remove(@, <<follower, blog_id>>),
                          !.SocialAccountById = insert(@, follower, social_account1),
                          !.BlogById = insert(@, blog_id, blog1)])
         IN then(IF reverts
                 THEN change_social_account_reputation(s, oc, author, follower, unwrap(negated), FollowBlog)
                 ELSE Ok(s))

unfollow_blog(s, oc, follower, blog_id) ==
  IF ~exists(s.BlogById, blog_id) THEN Err(s, MSG.BLOG_NOT_FOUND)
  ELSE IF ~get(s.BlogFollowedByAccount, <<follower, blog_id>>, FALSE) THEN Err(s, MSG.ACCOUNT_IS_NOT_FOLLOWING_BLOG)
  ELSE IF ~exists(s.SocialAccountById, follower) THEN Err(s, MSG.SOCIAL_ACCOUNT_NOT_FOUND)
  ELSE
    LET blog == s.BlogById[blog_id]
        social_account == s.SocialAccountById[follower]
        following_blogs_count == checked_sub_u16(social_account.following_blogs_count, 1)
        followers_count == checked_sub_u32(blog.followers_count, 1)
        author == blog.created.account
        rkey == <<follower, author, FollowBlog>>
        reverts == author /= follower /\ exists(s.AccountReputationDiffByAccount, rkey)
        score_diff == s.AccountReputationDiffByAccount[rkey]
        blog_score == checked_sub_i32(blog.score, score_diff)
        negated == neg_i16(oc, score_diff)
    IN IF is_none(following_blogs_count) THEN Err(s, MSG.UNDERFLOW_UNFOLLOWING_BLOG)
       ELSE IF is_none(followers_count) THEN Err(s, MSG.UNDERFLOW_UNFOLLOWING_BLOG)
       ELSE IF reverts /\ is_none(blog_score) THEN Err(s, MSG.OUT_OF_BOUNDS_UPDATING_BLOG_SCORE)
       ELSE IF reverts /\ is_none(negated) THEN Err(s, PANIC)
       ELSE
         LET blog1 == [blog EXCEPT !.followers_count = unwrap(followers_count),
                                   !.score = IF reverts THEN unwrap(blog_score) ELSE @]
             social_account1 == [social_account EXCEPT !.following_blogs_count = unwrap(following_blogs_count)]
             then(r) ==
               IF ~r.ok THEN r
               ELSE Ok([r.st EXCEPT
                          !.BlogsFollowedByAccount = mutate_remove(@, follower, blog_id),
                          !.BlogFollowers = mutate_remove(@, blog_id, follower),
                          !.BlogFollowedByAccount = remove(@, <<follower, blog_id>>),
                          !.SocialAccountById = insert(@, follower, social_account1),
                          !.BlogById = insert(@, blog_id, blog1)])
         IN then(IF reverts
                 THEN change_social_account_reputation(s, oc, author, follower, unwrap(negated), FollowBlog)
                 ELSE Ok(s))

follow_account(s, oc, follower, account) ==
  IF follower = account THEN Err(s, MSG.ACCOUNT_CANNOT_FOLLOW_ITSELF)
  ELSE IF exists(s.AccountFollowedByAccount, <<follower, account>>) THEN Err(s, MSG.ACCOUNT_IS_ALREADY_FOLLOWED)
  ELSE
    LET follower_account == get_or_new_social_account(s, follower)
        followed_account == get_or_new_social_account(s, account)
        following_accounts_count == checked_add_u16(follower_account.following_accounts_count, 1)
        followers_count == checked_add_u32(followed_account.followers_count, 1)
    IN IF is_none(following_accounts_count) THEN Err(s, MSG.OVERFLOW_FOLLOWING_ACCOUNT)
       ELSE IF is_none(followers_count) THEN Err(s, MSG.OVERFLOW_FOLLOWING_ACCOUNT)
       ELSE
         LET follower_account1 == [follower_account EXCEPT !.following_accounts_count = unwrap(following_accounts_count)]
             followed_account1 == [followed_account EXCEPT !.followers_count = unwrap(followers_count)]
             then(r) ==
               IF ~r.ok THEN r
               ELSE \* both accounts are written back from the copies read before the reputation change
                 Ok([r.st EXCEPT
                       !.SocialAccountById = insert(insert(@, follower, follower_account1),
                                                    account, followed_account1),
                       !.AccountsFollowedByAccount = mutate_push(@, follower, account),
                       !.AccountFollowers = mutate_push(@, account, follower),
                       !.AccountFollowedByAccount = insert(@, <<follower, account>>, TRUE)])
         IN then(change_social_account_reputation(s, oc, account, follower,
                   get_score_diff(follower_account.reputation, FollowAccount), FollowAccount))

\* unfollow_account without the removal of the follower from AccountFollowers
\* (line 581).
unfollow_account_keeps_follower(s, oc, follower, account) ==
  IF follower = account THEN Err(s, MSG.ACCOUNT_CANNOT_UNFOLLOW_ITSELF)
  ELSE IF ~exists(s.SocialAccountById, follower) THEN Err(s, MSG.FOLLOWER_ACCOUNT_NOT_FOUND)
  ELSE IF ~exists(s.SocialAccountById, account) THEN Err(s, MSG.FOLLOWED_ACCOUNT_NOT_FOUND)
  ELSE IF ~exists(s.AccountFollowedByAccount, <<follower, account>>) THEN Err(s, MSG.ACCOUNT_IS_NOT_FOLLOWED)
  ELSE
    LET follower_account == s.SocialAccountById[follower]
        followed_account == s.SocialAccountById[account]
        following_accounts_count == checked_sub_u16(follower_account.following_accounts_count, 1)
        followers_count == checked_sub_u32(followed_account.followers_count, 1)
        rkey == <<follower, account, FollowAccount>>
    IN IF is_none(following_accounts_count) THEN Err(s, MSG.UNDERFLOW_UNFOLLOWING_ACCOUNT)
       ELSE IF is_none(followers_count) THEN Err(s, MSG.UNDERFLOW_UNFOLLOWING_ACCOUNT)
       ELSE IF ~exists(s.AccountReputationDiffByAccount, rkey) THEN Err(s, MSG.REPUTATION_DIFF_NOT_FOUND)
       ELSE
         LET reputation_diff == s.AccountReputationDiffByAccount[rkey]
             follower_account1 == [follower_account EXCEPT !.following_accounts_count = unwrap(following_accounts_count)]
             followed_account1 == [followed_account EXCEPT !.followers_count = unwrap(followers_count)]
             then(r) ==
               IF ~r.ok THEN r
               ELSE
                 Ok([r.st EXCEPT
                       !.SocialAccountById = insert(insert(@, follower, follower_account1),
                                                    account, followed_account1),
                       !.AccountsFollowedByAccount = mutate_remove(@, follower, account),
                       !.AccountFollowedByAccount = remove(@, <<follower, account>>)])
         IN then(change_social_account_reputation(s, oc, account, follower, reputation_diff, FollowAccount))

unfollow_account(s, oc, follower, account) ==
  IF follower = account THEN Err(s, MSG.ACCOUNT_CANNOT_UNFOLLOW_ITSELF)
  ELSE IF ~exists(s.SocialAccountById, follower) THEN Err(s, MSG.FOLLOWER_ACCOUNT_NOT_FOUND)
  ELSE IF ~exists(s.SocialAccountById, account) THEN Err(s, MSG.FOLLOWED_ACCOUNT_NOT_FOUND)
  ELSE IF ~exists(s.AccountFollowedByAccount, <<follower, account>>) THEN Err(s, MSG.ACCOUNT_IS_NOT_FOLLOWED)
  ELSE
    LET follower_account == s.SocialAccountById[follower]
        followed_account == s.SocialAccountById[account]
        following_accounts_count == checked_sub_u16(follower_account.following_accounts_count, 1)
        followers_count == checked_sub_u32(followed_account.followers_count, 1)
        rkey == <<follower, account, FollowAccount>>
    IN IF is_none(following_accounts_count) THEN Err(s, MSG.UNDERFLOW_UNFOLLOWING_ACCOUNT)
       ELSE IF is_none(followers_count) THEN Err(s, MSG.UNDERFLOW_UNFOLLOWING_ACCOUNT)
       ELSE IF ~exists(s.AccountReputationDiffByAccount, rkey) THEN Err(s, MSG.REPUTATION_DIFF_NOT_FOUND)
       ELSE
         LET reputation_diff == s.AccountReputationDiffByAccount[rkey]
             follower_account1 == [follower_account EXCEPT !.following_accounts_count = unwrap(following_accounts_count)]
             followed_account1 == [followed_account EXCEPT !.followers_count = unwrap(followers_count)]
             then(r) ==
               IF ~r.ok THEN r
               ELSE
                 Ok([r.st EXCEPT
                       !.SocialAccountById = insert(insert(@, follower, follower_account1),
                                                    account, followed_account1),
                       !.AccountsFollowedByAccount = mutate_remove(@, follower, account),
                       !.AccountFollowers = mutate_remove(@, account, follower),
                       !.AccountFollowedByAccount = remove(@, <<follower, account>>)])
         IN then(change_social_account_reputation(s, oc, account, follower, reputation_diff, FollowAccount))


(***************************************************************************)
(* Posts, sharing and comments.                                            *)
(***************************************************************************)
\* share_post without the test of line 1335: every share changes the score.
share_post_always_scores(s, oc, account, original_post_id, shared_post_id) ==
  IF ~exists(s.PostById, original_post_id) THEN Err(s, MSG.ORIGINAL_POST_NOT_FOUND)
  ELSE
    LET original_post == s.PostById[original_post_id]
        shares_count == checked_add_u16(original_post.shares_count, 1)
        shares_by_account == checked_add_u16(get(s.PostSharesByAccount, <<account, original_post_id>>, 0), 1)
    IN IF is_none(shares_count) THEN Err(s, MSG.OVERFLOW_TOTAL_SHARES_SHARING_POST)
       ELSE IF is_none(shares_by_account) THEN Err(s, MSG.OVERFLOW_POST_SHARES_BY_ACCOUNT)
       ELSE
         LET original_post1 == [original_post EXCEPT !.shares_count = unwrap(shares_count)]
             then(r) ==
               IF ~r.ok THEN Err(r.st, r.err)
               ELSE Ok([r.st EXCEPT
                          !.PostById = insert(@, original_post_id, r.entity),
                          !.PostSharesByAccount = insert(@, <<account, original_post_id>>, unwrap(shares_by_account)),
                          !.SharedPostIdsByOriginalPostId = mutate_push(@, original_post_id, shared_post_id)])
         IN then(change_post_score(s, oc, account, original_post1, SharePost))

share_post(s, oc, account, original_post_id, shared_post_id) ==
  IF ~exists(s.PostById, original_post_id) THEN Err(s, MSG.ORIGINAL_POST_NOT_FOUND)
  ELSE
    LET original_post == s.PostById[original_post_id]
        shares_count == checked_add_u16(original_post.shares_count, 1)
        shares_by_account == checked_add_u16(get(s.PostSharesByAccount, <<account, original_post_id>>, 0), 1)
    IN IF is_none(shares_count) THEN Err(s, MSG.OVERFLOW_TOTAL_SHARES_SHARING_POST)
       ELSE IF is_none(shares_by_account) THEN Err(s, MSG.OVERFLOW_POST_SHARES_BY_ACCOUNT)
       ELSE
         LET original_post1 == [original_post EXCEPT !.shares_count = unwrap(shares_count)]
             then(r) ==
               IF ~r.ok THEN Err(r.st, r.err)
               ELSE Ok([r.st EXCEPT
                          !.PostById = insert(@, original_post_id, r.entity),
                          !.PostSharesByAccount = insert(@, <<account, original_post_id>>, unwrap(shares_by_account)),
                          !.SharedPostIdsByOriginalPostId = mutate_push(@, original_post_id, shared_post_id)])
         IN then(IF unwrap(shares_by_account) = 1
                 THEN change_post_score(s, oc, account, original_post1, SharePost)
                 ELSE OkE(s, original_post1))

share_comment(s, oc, account, original_comment_id, shared_post_id) ==
  IF ~exists(s.CommentById, original_comment_id) THEN Err(s, MSG.ORIGINAL_COMMENT_NOT_FOUND)
  ELSE
    LET original_comment == s.CommentById[original_comment_id]
        shares_count == checked_add_u16(original_comment.shares_count, 1)
        shares_by_account == checked_add_u16(get(s.CommentSharesByAccount, <<account, original_comment_id>>, 0), 1)
    IN IF is_none(shares_count) THEN Err(s, MSG.OVERFLOW_TOTAL_SHARES_SHARING_COMMENT)
       ELSE IF is_none(shares_by_account) THEN Err(s, MSG.OVERFLOW_COMMENT_SHARES_BY_ACCOUNT)
       ELSE
         LET original_comment1 == [original_comment EXCEPT !.shares_count = unwrap(shares_count)]
             then(r) ==
               IF ~r.ok THEN Err(r.st, r.err)
               ELSE \* the local comment is not written back here
                 Ok([r.st EXCEPT
                       !.CommentSharesByAccount = insert(@, <<account, original_comment_id>>, unwrap(shares_by_account)),
                       !.SharedPostIdsByOriginalCommentId = mutate_push(@, original_comment_id, shared_post_id)])
         IN then(IF unwrap(shares_by_account) = 1
                 THEN change_comment_score(s, oc, account, original_comment1, ShareComment)
                 ELSE OkE(s, original_comment1))

\* create_post without the test of line 603: a shared post can be shared.
create_post_shares_any(s, oc, owner, blog_id, ipfs_hash, extension) ==
  IF ~exists(s.BlogById, blog_id) THEN Err(s, MSG.BLOG_NOT_FOUND)
  ELSE
    LET blog == s.BlogById[blog_id]
        posts_count == checked_add_u16(blog.posts_count, 1)
        new_post_id == s.NextPostId
        new_post == [id |-> new_post_id, blog_id |-> blog_id, created |-> new_change(owner),
                     updated |-> None, extension |-> extension, ipfs_hash |-> ipfs_hash,
                     comments_count |-> 0, upvotes_count |-> 0, downvotes_count |-> 0,
                     shares_count |-> 0, edit_history |-> <<>>, score |-> 0]
        then(r) ==
          IF ~r.ok THEN r
          ELSE \* `blog` is the copy read on entry, with posts_count bumped
            Ok([r.st EXCEPT
                  !.PostById = insert(@, new_post_id, new_post),
                  !.PostIdsByBlogId = mutate_push(@, blog_id, new_post_id),
                  !.NextPostId = @ + 1,
                  !.BlogById = insert(@, blog_id, [blog EXCEPT !.posts_count = unwrap(posts_count)])])
    IN IF is_none(posts_count) THEN Err(s, MSG.OVERFLOW_ADDING_POST_ON_BLOG)
       ELSE then(CASE extension[1] = "RegularPost" ->
                        IF is_ipfs_hash_valid(ipfs_hash) THEN Ok(s) ELSE Err(s, MSG.IPFS_IS_INCORRECT)
                   [] extension[1] = "SharedPost" ->
                        IF ~exists(s.PostById, extension[2]) THEN Err(s, MSG.ORIGINAL_POST_NOT_FOUND)
                        ELSE share_post(s, oc, owner, extension[2], new_post_id)
                   [] extension[1] = "SharedComment" ->
                        share_comment(s, oc, owner, extension[2], new_post_id))

create_post(s, oc, owner, blog_id, ipfs_hash, extension) ==
  IF ~exists(s.BlogById, blog_id) THEN Err(s, MSG.BLOG_NOT_FOUND)
  ELSE
    LET blog == s.BlogById[blog_id]
        posts_count == checked_add_u16(blog.posts_count, 1)
        new_post_id == s.NextPostId
        new_post == [id |-> new_post_id, blog_id |-> blog_id, created |-> new_change(owner),
                     updated |-> None, extension |-> extension, ipfs_hash |-> ipfs_hash,
                     comments_count |-> 0, upvotes_count |-> 0, downvotes_count |-> 0,
                     shares_count |-> 0, edit_history |-> <<>>, score |-> 0]
        then(r) ==
          IF ~r.ok THEN r
          ELSE \* `blog` is the copy read on entry, with posts_count bumped
            Ok([r.st EXCEPT
                  !.PostById = insert(@, new_post_id, new_post),
                  !.PostIdsByBlogId = mutate_push(@, blog_id, new_post_id),
                  !.NextPostId = @ + 1,
                  !.BlogById = insert(@, blog_id, [blog EXCEPT !.posts_count = unwrap(posts_count)])])
    IN IF is_none(posts_count) THEN Err(s, MSG.OVERFLOW_ADDING_POST_ON_BLOG)
       ELSE then(CASE extension[1] = "RegularPost" ->
                        IF is_ipfs_hash_valid(ipfs_hash) THEN Ok(s) ELSE Err(s, MSG.IPFS_IS_INCORRECT)
                   [] extension[1] = "SharedPost" ->
                        IF ~exists(s.PostById, extension[2]) THEN Err(s, MSG.ORIGINAL_POST_NOT_FOUND)
                        ELSE IF s.PostById[extension[2]].extension /= RegularPost
                        THEN Err(s, MSG.CANNOT_SHARE_SHARED_POST)
                        ELSE share_post(s, oc, owner, extension[2], new_post_id)
                   [] extension[1] = "SharedComment" ->
                        share_comment(s, oc, owner, extension[2], new_post_id))

create_comment(s, oc, owner, post_id, parent_id, ipfs_hash) ==
  IF ~exists(s.PostById, post_id) THEN Err(s, MSG.POST_NOT_FOUND)
  ELSE IF ~is_ipfs_hash_valid(ipfs_hash) THEN Err(s, MSG.IPFS_IS_INCORRECT)
  ELSE
    LET post == s.PostById[post_id]
        comment_id == s.NextCommentId
        new_comment == [id |-> comment_id, parent_id |-> parent_id, post_id |-> post_id,
                        created |-> new_change(owner), updated |-> None, ipfs_hash |-> ipfs_hash,
                        upvotes_count |-> 0, downvotes_count |-> 0, shares_count |-> 0,
                        direct_replies_count |-> 0, edit_history |-> <<>>, score |-> 0]
        comments_count == checked_add_u16(post.comments_count, 1)
    IN IF is_none(comments_count) THEN Err(s, MSG.OVERFLOW_ADDING_COMMENT_ON_POST)
       ELSE
         LET has_parent == is_some(parent_id)
             id == unwrap(parent_id)
             store_comment(s2, post1) ==
               Ok([s2 EXCEPT
                     !.CommentById = insert(@, comment_id, new_comment),
                     !.CommentIdsByPostId = mutate_push(@, post_id, comment_id),
                     !.NextCommentId = @ + 1,
                     !.PostById = insert(@, post_id, post1)])
             reply(s1, post1, direct_replies_count) ==
               IF is_none(direct_replies_count) THEN Err(s1, MSG.OVERFLOW_REPLYING_ON_COMMENT)
               ELSE store_comment([s1 EXCEPT !.CommentById = insert(@, id,
                                     [s1.CommentById[id] EXCEPT !.direct_replies_count = unwrap(direct_replies_count)])],
                                  post1)
             scored(s1, post1) ==
               IF ~has_parent THEN store_comment(s1, post1)
               ELSE IF ~exists(s1.CommentById, id) THEN Err(s1, MSG.UNKNOWN_PARENT_COMMENT)
               ELSE reply(s1, post1, checked_add_u16(s1.CommentById[id].direct_replies_count, 1))
             then(r) == IF ~r.ok THEN Err(r.st, r.err) ELSE scored(r.st, r.entity)
         IN then(change_post_score(s, oc, owner, [post EXCEPT !.comments_count = unwrap(comments_count)],
                                   CreateComment))

(***************************************************************************)
(* Reactions.                                                              *)
(***************************************************************************)
\* Writes the reaction and bumps NextReactionId; the result is the store, the
\* id is the NextReactionId read before the call.
new_reaction(s, account, kind) ==
  LET reaction_id == s.NextReactionId
      reaction == [id |-> reaction_id, created |-> new_change(account), updated |-> None, kind |-> kind]
  IN [s EXCEPT !.ReactionById = insert(@, reaction_id, reaction), !.NextReactionId = @ + 1]

\* create_post_reaction without the branch of lines 698-703: the creator's
\* reaction goes through change_post_score like every other.
create_post_reaction_always_scores(s, oc, owner, post_id, kind) ==
  IF exists(s.PostReactionIdByAccount, <<owner, post_id>>) THEN Err(s, MSG.ACCOUNT_ALREADY_REACTED_TO_POST)
  ELSE IF ~exists(s.PostById, post_id) THEN Err(s, MSG.POST_NOT_FOUND)
  ELSE
    LET post == s.PostById[post_id]
        reaction_id == s.NextReactionId
        s1 == new_reaction(s, owner, kind)
        count == IF kind = Upvote THEN checked_add_u16(post.upvotes_count, 1)
                 ELSE checked_add_u16(post.downvotes_count, 1)
        action == IF kind = Upvote THEN UpvotePost ELSE DownvotePost
    IN IF is_none(count)
       THEN Err(s1, IF kind = Upvote THEN MSG.OVERFLOW_UPVOTING_POST ELSE MSG.OVERFLOW_DOWNVOTING_POST)
       ELSE
         LET post1 == IF kind = Upvote THEN [post EXCEPT !.upvotes_count = unwrap(count)]
                      ELSE [post EXCEPT !.downvotes_count = unwrap(count)]
             then(r) ==
               IF ~r.ok THEN Err(r.st, r.err)
               ELSE Ok([r.st EXCEPT
                          !.ReactionIdsByPostId = mutate_push(@, post_id, reaction_id),
                          !.PostReactionIdByAccount = insert(@, <<owner, post_id>>, reaction_id)])
         IN then(change_post_score(s1, oc, owner, post1, action))

create_post_reaction(s, oc, owner, post_id, kind) ==
  IF exists(s.PostReactionIdByAccount, <<owner, post_id>>) THEN Err(s, MSG.ACCOUNT_ALREADY_REACTED_TO_POST)
  ELSE IF ~exists(s.PostById, post_id) THEN Err(s, MSG.POST_NOT_FOUND)
  ELSE
    LET post == s.PostById[post_id]
        reaction_id == s.NextReactionId
        s1 == new_reaction(s, owner, kind)
        count == IF kind = Upvote THEN checked_add_u16(post.upvotes_count, 1)
                 ELSE checked_add_u16(post.downvotes_count, 1)
        action == IF kind = Upvote THEN UpvotePost ELSE DownvotePost
    IN IF is_none(count)
       THEN Err(s1, IF kind = Upvote THEN MSG.OVERFLOW_UPVOTING_POST ELSE MSG.OVERFLOW_DOWNVOTING_POST)
       ELSE
         LET post1 == IF kind = Upvote THEN [post EXCEPT !.upvotes_count = unwrap(count)]
                      ELSE [post EXCEPT !.downvotes_count = unwrap(count)]
             then(r) ==
               IF ~r.ok THEN Err(r.st, r.err)
               ELSE Ok([r.st EXCEPT
                          !.ReactionIdsByPostId = mutate_push(@, post_id, reaction_id),
                          !.PostReactionIdByAccount = insert(@, <<owner, post_id>>, reaction_id)])
         IN then(IF post1.created.account /= owner
                 THEN change_post_score(s1, oc, owner, post1, action)
                 ELSE OkE([s1 EXCEPT !.PostById = insert(@, post_id, post1)], post1))

create_comment_reaction(s, oc, owner, comment_id, kind) ==
  IF exists(s.CommentReactionIdByAccount, <<owner, comment_id>>) THEN Err(s, MSG.ACCOUNT_ALREADY_REACTED_TO_COMMENT)
  ELSE IF ~exists(s.CommentById, comment_id) THEN Err(s, MSG.COMMENT_NOT_FOUND)
  ELSE
    LET comment == s.CommentById[comment_id]
        reaction_id == s.NextReactionId
        s1 == new_reaction(s, owner, kind)
        count == IF kind = Upvote THEN checked_add_u16(comment.upvotes_count, 1)
                 ELSE checked_add_u16(comment.downvotes_count, 1)
        action == IF kind = Upvote THEN UpvoteComment ELSE DownvoteComment
    IN IF is_none(count)
       THEN Err(s1, IF kind = Upvote THEN MSG.OVERFLOW_UPVOTING_COMMENT ELSE MSG.OVERFLOW_DOWNVOTING_COMMENT)
       ELSE
         LET comment1 == IF kind = Upvote THEN [comment EXCEPT !.upvotes_count = unwrap(count)]
                         ELSE [comment EXCEPT !.downvotes_count = unwrap(count)]
             then(r) ==
               IF ~r.ok THEN Err(r.st, r.err)
               ELSE Ok([r.st EXCEPT
                          !.ReactionIdsByCommentId = mutate_push(@, comment_id, reaction_id),
                          !.CommentReactionIdByAccount = insert(@, <<owner, comment_id>>, reaction_id)])
         IN then(IF comment1.created.account /= owner
                 THEN change_comment_score(s1, oc, owner, comment1, action)
                 ELSE OkE([s1 EXCEPT !.CommentById = insert(@, comment_id, comment1)], comment1))

\* The two unchecked counter updates of update_*_reaction, in the code's order:
\* None when either panics.
swap_vote_counts(oc, entity, new_kind) ==
  LET up == IF new_kind = Upvote THEN add_u16(oc, entity.upvotes_count, 1) ELSE sub_u16(oc, entity.upvotes_count, 1)
      down == IF new_kind = Upvote THEN sub_u16(oc, entity.downvotes_count, 1) ELSE add_u16(oc, entity.downvotes_count, 1)
  IN IF is_none(up) \/ is_none(down) THEN None
     ELSE Some([entity EXCEPT !.upvotes_count = unwrap(up), !.downvotes_count = unwrap(down)])

\* The unchecked decrement of delete_*_reaction.
drop_vote_count(oc, entity, kind) ==
  LET c == IF kind = Upvote THEN sub_u16(oc, entity.upvotes_count, 1) ELSE sub_u16(oc, entity.downvotes_count, 1)
  IN IF is_none(c) THEN None
     ELSE Some(IF kind = Upvote THEN [entity EXCEPT !.upvotes_count = unwrap(c)]
               ELSE [entity EXCEPT !.downvotes_count = unwrap(c)])

update_post_reaction(s, oc, owner, post_id, reaction_id, new_kind) ==
  IF ~exists(s.PostReactionIdByAccount, <<owner, post_id>>) THEN Err(s, MSG.ACCOUNT_HAS_NOT_REACTED_TO_POST)
  ELSE IF ~exists(s.ReactionById, reaction_id) THEN Err(s, MSG.REACTION_NOT_FOUND)
  ELSE IF ~exists(s.PostById, post_id) THEN Err(s, MSG.POST_NOT_FOUND)
  ELSE
    LET reaction == s.ReactionById[reaction_id]
        post == swap_vote_counts(oc, s.PostById[post_id], new_kind)
    IN IF owner /= reaction.created.account THEN Err(s, MSG.ONLY_REACTION_OWNER_CAN_UPDATE_REACTION)
       ELSE IF reaction.kind = new_kind THEN Err(s, MSG.NEW_REACTION_KIND_DO_NOT_DIFFER)
       ELSE IF is_none(post) THEN Err(s, PANIC)
       ELSE Ok([s EXCEPT
                  !.ReactionById = insert(@, reaction_id,
                      [reaction EXCEPT !.kind = new_kind, !.updated = Some(new_change(owner))]),
                  !.PostById = insert(@, post_id, unwrap(post))])

update_comment_reaction(s, oc, owner, comment_id, reaction_id, new_kind) ==
  IF ~exists(s.CommentReactionIdByAccount, <<owner, comment_id>>) THEN Err(s, MSG.ACCOUNT_HAS_NOT_REACTED_TO_COMMENT)
  ELSE IF ~exists(s.ReactionById, reaction_id) THEN Err(s, MSG.REACTION_NOT_FOUND)
  ELSE IF ~exists(s.CommentById, comment_id) THEN Err(s, MSG.COMMENT_NOT_FOUND)
  ELSE
    LET reaction == s.ReactionById[reaction_id]
        comment == swap_vote_counts(oc, s.CommentById[comment_id], new_kind)
    IN IF owner /= reaction.created.account THEN Err(s, MSG.ONLY_REACTION_OWNER_CAN_UPDATE_REACTION)
       ELSE IF reaction.kind = new_kind THEN Err(s, MSG.NEW_REACTION_KIND_DO_NOT_DIFFER)
       ELSE IF is_none(comment) THEN Err(s, PANIC)
       ELSE Ok([s EXCEPT
                  !.ReactionById = insert(@, reaction_id,
                      [reaction EXCEPT !.kind = new_kind, !.updated = Some(new_change(owner))]),
                  !.CommentById = insert(@, comment_id, unwrap(comment))])

delete_post_reaction(s, oc, owner, post_id, reaction_id) ==
  IF ~exists(s.PostReactionIdByAccount, <<owner, post_id>>) THEN Err(s, MSG.NO_POST_REACTION_BY_ACCOUNT_TO_DELETE)
  ELSE IF ~exists(s.ReactionById, reaction_id) THEN Err(s, MSG.REACTION_NOT_FOUND)
  ELSE IF ~exists(s.PostById, post_id) THEN Err(s, MSG.POST_NOT_FOUND)
  ELSE
    LET reaction == s.ReactionById[reaction_id]
        post == drop_vote_count(oc, s.PostById[post_id], reaction.kind)
    IN IF owner /= reaction.created.account THEN Err(s, MSG.ONLY_REACTION_OWNER_CAN_UPDATE_REACTION)
       ELSE IF is_none(post) THEN Err(s, PANIC)
       ELSE Ok([s EXCEPT
                  !.PostById = insert(@, post_id, unwrap(post)),
                  !.ReactionById = remove(@, reaction_id),
                  !.ReactionIdsByPostId = mutate_remove(@, post_id, reaction_id),
                  !.PostReactionIdByAccount = remove(@, <<owner, post_id>>)])

delete_comment_reaction(s, oc, owner, comment_id, reaction_id) ==
  IF ~exists(s.CommentReactionIdByAccount, <<owner, comment_id>>) THEN Err(s, MSG.NO_COMMENT_REACTION_BY_ACCOUNT_TO_DELETE)
  ELSE IF ~exists(s.ReactionById, reaction_id) THEN Err(s, MSG.REACTION_NOT_FOUND)
  ELSE IF ~exists(s.CommentById, comment_id) THEN Err(s, MSG.COMMENT_NOT_FOUND)
  ELSE
    LET reaction == s.ReactionById[reaction_id]
        comment == drop_vote_count(oc, s.CommentById[comment_id], reaction.kind)
    IN IF owner /= reaction.created.account THEN Err(s, MSG.ONLY_REACTION_OWNER_CAN_UPDATE_REACTION)
       ELSE IF is_none(comment) THEN Err(s, PANIC)
       ELSE Ok([s EXCEPT
                  !.CommentById = insert(@, comment_id, unwrap(comment)),
                  !.ReactionIdsByCommentId = mutate_remove(@, comment_id, reaction_id),
                  !.ReactionById = remove(@, reaction_id),
                  !.CommentReactionIdByAccount = remove(@, <<owner, comment_id>>)])


(***************************************************************************)
(* Profiles and updates.                                                   *)
(***************************************************************************)
create_profile(s, oc, owner, username, ipfs_hash) ==
  LET social_account == get_or_new_social_account(s, owner)
      username_error == is_username_valid(s, username)
  IN IF is_some(social_account.profile) THEN Err(s, MSG.PROFILE_ALREADY_EXISTS)
     ELSE IF username_error /= "" THEN Err(s, username_error)
     ELSE IF ~is_ipfs_hash_valid(ipfs_hash) THEN Err(s, MSG.IPFS_IS_INCORRECT)
     ELSE
       LET profile == [created |-> new_change(owner), updated |-> None, username |-> username,
                       ipfs_hash |-> ipfs_hash, edit_history |-> <<>>]
       IN Ok([s EXCEPT
                !.AccountByProfileUsername = insert(@, username, owner),
                !.SocialAccountById = insert(@, owner, [social_account EXCEPT !.profile = Some(profile)])])

\* update_profile without the removal of the old username from
\* AccountByProfileUsername (line 798).
update_profile_keeps_old_username(s, oc, owner, update) ==
  LET has_updates == is_some(update.username) \/ is_some(update.ipfs_hash)
  IN IF ~has_updates THEN Err(s, MSG.NOTHING_TO_UPDATE_IN_PROFILE)
     ELSE IF ~exists(s.SocialAccountById, owner) THEN Err(s, MSG.SOCIAL_ACCOUNT_NOT_FOUND)
     ELSE IF is_none(s.SocialAccountById[owner].profile) THEN Err(s, MSG.PROFILE_DOESNT_EXIST)
     ELSE
       LET social_account == s.SocialAccountById[owner]
           profile == unwrap(social_account.profile)
           hash_changes == is_some(update.ipfs_hash) /\ unwrap(update.ipfs_hash) /= profile.ipfs_hash
           name_changes == is_some(update.username) /\ unwrap(update.username) /= profile.username
           username_error == is_username_valid(s, unwrap(update.username))
           old_data == [username |-> IF name_changes THEN Some(profile.username) ELSE None,
                        ipfs_hash |-> IF hash_changes THEN Some(profile.ipfs_hash) ELSE None]
           new_history_record == [edited |-> new_change(owner), old_data |-> old_data]
       IN IF hash_changes /\ ~is_ipfs_hash_valid(unwrap(update.ipfs_hash)) THEN Err(s, MSG.IPFS_IS_INCORRECT)
          ELSE IF name_changes /\ username_error /= "" THEN Err(s, username_error)
          ELSE
            LET s1 == IF name_changes
                      THEN [s EXCEPT !.AccountByProfileUsername =
                              insert(@, unwrap(update.username), owner)]
                      ELSE s
                profile1 == [profile EXCEPT
                               !.ipfs_hash = IF hash_changes THEN unwrap(update.ipfs_hash) ELSE @,
                               !.username = IF name_changes THEN unwrap(update.username) ELSE @,
                               !.updated = Some(new_change(owner)),
                               !.edit_history = Append(@, new_history_record)]
            IN IF hash_changes \/ name_changes
               THEN Ok([s1 EXCEPT !.SocialAccountById =
                          insert(@, owner, [social_account EXCEPT !.profile = Some(profile1)])])
               ELSE Ok(s1)

update_profile(s, oc, owner, update) ==
  LET has_updates == is_some(update.username) \/ is_some(update.ipfs_hash)
  IN IF ~has_updates THEN Err(s, MSG.NOTHING_TO_UPDATE_IN_PROFILE)
     ELSE IF ~exists(s.SocialAccountById, owner) THEN Err(s, MSG.SOCIAL_ACCOUNT_NOT_FOUND)
     ELSE IF is_none(s.SocialAccountById[owner].profile) THEN Err(s, MSG.PROFILE_DOESNT_EXIST)
     ELSE
       LET social_account == s.SocialAccountById[owner]
           profile == unwrap(social_account.profile)
           hash_changes == is_some(update.ipfs_hash) /\ unwrap(update.ipfs_hash) /= profile.ipfs_hash
           name_changes == is_some(update.username) /\ unwrap(update.username) /= profile.username
           username_error == is_username_valid(s, unwrap(update.username))
           old_data == [username |-> IF name_changes THEN Some(profile.username) ELSE None,
                        ipfs_hash |-> IF hash_changes THEN Some(profile.ipfs_hash) ELSE None]
           new_history_record == [edited |-> new_change(owner), old_data |-> old_data]
       IN IF hash_changes /\ ~is_ipfs_hash_valid(unwrap(update.ipfs_hash)) THEN Err(s, MSG.IPFS_IS_INCORRECT)
          ELSE IF name_changes /\ username_error /= "" THEN Err(s, username_error)
          ELSE
            LET s1 == IF name_changes
                      THEN [s EXCEPT !.AccountByProfileUsername =
                              insert(remove(@, profile.username), unwrap(update.username), owner)]
                      ELSE s
                profile1 == [profile EXCEPT
                               !.ipfs_hash = IF hash_changes THEN unwrap(update.ipfs_hash) ELSE @,
                               !.username = IF name_changes THEN unwrap(update.username) ELSE @,
                               !.updated = Some(new_change(owner)),
                               !.edit_history = Append(@, new_history_record)]
            IN IF hash_changes \/ name_changes
               THEN Ok([s1 EXCEPT !.SocialAccountById =
                          insert(@, owner, [social_account EXCEPT !.profile = Some(profile1)])])
               ELSE Ok(s1)

\* update_blog without the removal of the old slug from BlogIdBySlug (line 863).
update_blog_keeps_old_slug(s, oc, owner, blog_id, update) ==
  LET has_updates == is_some(update.writers) \/ is_some(update.slug) \/ is_some(update.ipfs_hash)
  IN IF ~has_updates THEN Err(s, MSG.NOTHING_TO_UPDATE_IN_BLOG)
     ELSE IF ~exists(s.BlogById, blog_id) THEN Err(s, MSG.BLOG_NOT_FOUND)
     ELSE IF owner /= s.BlogById[blog_id].created.account THEN Err(s, MSG.ONLY_BLOG_OWNER_CAN_UPDATE_BLOG)
     ELSE
       LET blog == s.BlogById[blog_id]
           writers_change == is_some(update.writers) /\ unwrap(update.writers) /= blog.writers
           hash_changes == is_some(update.ipfs_hash) /\ unwrap(update.ipfs_hash) /= blog.ipfs_hash
           slug_changes == is_some(update.slug) /\ unwrap(update.slug) /= blog.slug
           slug == unwrap(update.slug)
           old_data == [writers |-> IF writers_change THEN Some(blog.writers) ELSE None,
                        slug |-> IF slug_changes THEN Some(blog.slug) ELSE None,
                        ipfs_hash |-> IF hash_changes THEN Some(blog.ipfs_hash) ELSE None]
           new_history_record == [edited |-> new_change(owner), old_data |-> old_data]
       IN IF hash_changes /\ ~is_ipfs_hash_valid(unwrap(update.ipfs_hash)) THEN Err(s, MSG.IPFS_IS_INCORRECT)
          ELSE IF slug_changes /\ Len(slug) < DEFAULT_SLUG_MIN_LEN THEN Err(s, MSG.BLOG_SLUG_IS_TOO_SHORT)
          ELSE IF slug_changes /\ Len(slug) > DEFAULT_SLUG_MAX_LEN THEN Err(s, MSG.BLOG_SLUG_IS_TOO_LONG)
          ELSE IF slug_changes /\ exists(s.BlogIdBySlug, slug) THEN Err(s, MSG.BLOG_SLUG_IS_NOT_UNIQUE)
          ELSE
            LET s1 == IF slug_changes
                      THEN [s EXCEPT !.BlogIdBySlug = insert(@, slug, blog_id)]
                      ELSE s
                blog1 == [blog EXCEPT
                            !.writers = IF writers_change THEN unwrap(update.writers) ELSE @,
                            !.ipfs_hash = IF hash_changes THEN unwrap(update.ipfs_hash) ELSE @,
                            !.slug = IF slug_changes THEN slug ELSE @,
                            !.updated = Some(new_change(owner)),
                            !.edit_history = Append(@, new_history_record)]
            IN \* fields_updated > 0
               IF writers_change \/ hash_changes \/ slug_changes
               THEN Ok([s1 EXCEPT !.BlogById = insert(@, blog_id, blog1)])
               ELSE Ok(s1)

update_blog(s, oc, owner, blog_id, update) ==
  LET has_updates == is_some(update.writers) \/ is_some(update.slug) \/ is_some(update.ipfs_hash)
  IN IF ~has_updates THEN Err(s, MSG.NOTHING_TO_UPDATE_IN_BLOG)
     ELSE IF ~exists(s.BlogById, blog_id) THEN Err(s, MSG.BLOG_NOT_FOUND)
     ELSE IF owner /= s.BlogById[blog_id].created.account THEN Err(s, MSG.ONLY_BLOG_OWNER_CAN_UPDATE_BLOG)
     ELSE
       LET blog == s.BlogById[blog_id]
           writers_change == is_some(update.writers) /\ unwrap(update.writers) /= blog.writers
           hash_changes == is_some(update.ipfs_hash) /\ unwrap(update.ipfs_hash) /= blog.ipfs_hash
           slug_changes == is_some(update.slug) /\ unwrap(update.slug) /= blog.slug
           slug == unwrap(update.slug)
           old_data == [writers |-> IF writers_change THEN Some(blog.writers) ELSE None,
                        slug |-> IF slug_changes THEN Some(blog.slug) ELSE None,
                        ipfs_hash |-> IF hash_changes THEN Some(blog.ipfs_hash) ELSE None]
           new_history_record == [edited |-> new_change(owner), old_data |-> old_data]
       IN IF hash_changes /\ ~is_ipfs_hash_valid(unwrap(update.ipfs_hash)) THEN Err(s, MSG.IPFS_IS_INCORRECT)
          ELSE IF slug_changes /\ Len(slug) < DEFAULT_SLUG_MIN_LEN THEN Err(s, MSG.BLOG_SLUG_IS_TOO_SHORT)
          ELSE IF slug_changes /\ Len(slug) > DEFAULT_SLUG_MAX_LEN THEN Err(s, MSG.BLOG_SLUG_IS_TOO_LONG)
          ELSE IF slug_changes /\ exists(s.BlogIdBySlug, slug) THEN Err(s, MSG.BLOG_SLUG_IS_NOT_UNIQUE)
          ELSE
            LET s1 == IF slug_changes
                      THEN [s EXCEPT !.BlogIdBySlug = insert(remove(@, blog.slug), slug, blog_id)]
                      ELSE s
                blog1 == [blog EXCEPT
                            !.writers = IF writers_change THEN unwrap(update.writers) ELSE @,
                            !.ipfs_hash = IF hash_changes THEN unwrap(update.ipfs_hash) ELSE @,
                            !.slug = IF slug_changes THEN slug ELSE @,
                            !.updated = Some(new_change(owner)),
                            !.edit_history = Append(@, new_history_record)]
            IN \* fields_updated > 0
               IF writers_change \/ hash_changes \/ slug_changes
               THEN Ok([s1 EXCEPT !.BlogById = insert(@, blog_id, blog1)])
               ELSE Ok(s1)

\* update_post without the removal of the post id from the list of its old
\* blog (line 915).
update_post_keeps_old_list(s, oc, owner, post_id, update) ==
  LET has_updates == is_some(update.blog_id) \/ is_some(update.ipfs_hash)
  IN IF ~has_updates THEN Err(s, MSG.NOTHING_TO_UPDATE_IN_POST)
     ELSE IF ~exists(s.PostById, post_id) THEN Err(s, MSG.POST_NOT_FOUND)
     ELSE IF owner /= s.PostById[post_id].created.account THEN Err(s, MSG.ONLY_POST_OWNER_CAN_UPDATE_POST)
     ELSE
       LET post == s.PostById[post_id]
           hash_changes == is_some(update.ipfs_hash) /\ unwrap(update.ipfs_hash) /= post.ipfs_hash
           blog_changes == is_some(update.blog_id) /\ unwrap(update.blog_id) /= post.blog_id
           blog_id == unwrap(update.blog_id)
           old_data == [blog_id |-> IF blog_changes THEN Some(post.blog_id) ELSE None,
                        ipfs_hash |-> IF hash_changes THEN Some(post.ipfs_hash) ELSE None]
           new_history_record == [edited |-> new_change(owner), old_data |-> old_data]
       IN IF hash_changes /\ ~is_ipfs_hash_valid(unwrap(update.ipfs_hash)) THEN Err(s, MSG.IPFS_IS_INCORRECT)
          ELSE IF blog_changes /\ ~ensure_blog_exists(s, blog_id) THEN Err(s, MSG.BLOG_NOT_FOUND)
          ELSE
            LET s1 == IF blog_changes
                      THEN [s EXCEPT !.PostIdsByBlogId =
                              mutate_push(@, blog_id, post_id)]
                      ELSE s
                post1 == [post EXCEPT
                            !.ipfs_hash = IF hash_changes THEN unwrap(update.ipfs_hash) ELSE @,
                            !.blog_id = IF blog_changes THEN blog_id ELSE @,
                            !.updated = Some(new_change(owner)),
                            !.edit_history = Append(@, new_history_record)]
            IN \* fields_updated > 0
               IF hash_changes \/ blog_changes
               THEN Ok([s1 EXCEPT !.PostById = insert(@, post_id, post1)])
               ELSE Ok(s1)

update_post(s, oc, owner, post_id, update) ==
  LET has_updates == is_some(update.blog_id) \/ is_some(update.ipfs_hash)
  IN IF ~has_updates THEN Err(s, MSG.NOTHING_TO_UPDATE_IN_POST)
     ELSE IF ~exists(s.PostById, post_id) THEN Err(s, MSG.POST_NOT_FOUND)
     ELSE IF owner /= s.PostById[post_id].created.account THEN Err(s, MSG.ONLY_POST_OWNER_CAN_UPDATE_POST)
     ELSE
       LET post == s.PostById[post_id]
           hash_changes == is_some(update.ipfs_hash) /\ unwrap(update.ipfs_hash) /= post.ipfs_hash
           blog_changes == is_some(update.blog_id) /\ unwrap(update.blog_id) /= post.blog_id
           blog_id == unwrap(update.blog_id)
           old_data == [blog_id |-> IF blog_changes THEN Some(post.blog_id) ELSE None,
                        ipfs_hash |-> IF hash_changes THEN Some(post.ipfs_hash) ELSE None]
           new_history_record == [edited |-> new_change(owner), old_data |-> old_data]
       IN IF hash_changes /\ ~is_ipfs_hash_valid(unwrap(update.ipfs_hash)) THEN Err(s, MSG.IPFS_IS_INCORRECT)
          ELSE IF blog_changes /\ ~ensure_blog_exists(s, blog_id) THEN Err(s, MSG.BLOG_NOT_FOUND)
          ELSE
            LET s1 == IF blog_changes
                      THEN [s EXCEPT !.PostIdsByBlogId =
                              mutate_push(mutate_remove(@, post.blog_id, post_id), blog_id, post_id)]
                      ELSE s
                post1 == [post EXCEPT
                            !.ipfs_hash = IF hash_changes THEN unwrap(update.ipfs_hash) ELSE @,
                            !.blog_id = IF blog_changes THEN blog_id ELSE @,
                            !.updated = Some(new_change(owner)),
                            !.edit_history = Append(@, new_history_record)]
            IN \* fields_updated > 0
               IF hash_changes \/ blog_changes
               THEN Ok([s1 EXCEPT !.PostById = insert(@, post_id, post1)])
               ELSE Ok(s1)

update_comment(s, oc, owner, comment_id, update) ==
  IF ~exists(s.CommentById, comment_id) THEN Err(s, MSG.COMMENT_NOT_FOUND)
  ELSE
    LET comment == s.CommentById[comment_id]
        ipfs_hash == update.ipfs_hash
        new_history_record == [edited |-> new_change(owner), old_data |-> [ipfs_hash |-> comment.ipfs_hash]]
    IN IF owner /= comment.created.account THEN Err(s, MSG.ONLY_COMMENT_AUTHOR_CAN_UPDATE_COMMENT)
       ELSE IF ipfs_hash = comment.ipfs_hash THEN Err(s, MSG.NEW_COMMENT_HASH_DO_NOT_DIFFER)
       ELSE IF ~is_ipfs_hash_valid(ipfs_hash) THEN Err(s, MSG.IPFS_IS_INCORRECT)
       ELSE Ok([s EXCEPT !.CommentById = insert(@, comment_id,
                  [comment EXCEPT !.edit_history = Append(@, new_history_record),
                                  !.ipfs_hash = ipfs_hash,
                                  !.updated = Some(new_change(owner))])])

(***************************************************************************)
(* Direct calls of the public scoring functions, as the tests make them:   *)
(* the entity is read from storage and passed in.                          *)
(***************************************************************************)
change_post_score_by_id(s, oc, account, post_id, action) ==
  IF exists(s.PostById, post_id)
  THEN LET result_of(r) == [st |-> r.st, ok |-> r.ok, err |-> r.err]
       IN result_of(change_post_score(s, oc, account, s.PostById[post_id], action))
  ELSE Err(s, MSG.POST_NOT_FOUND)

change_comment_score_by_id(s, oc, account, comment_id, action) ==
  IF exists(s.CommentById, comment_id)
  THEN LET result_of(r) == [st |-> r.st, ok |-> r.ok, err |-> r.err]
       IN result_of(change_comment_score(s, oc, account, s.CommentById[comment_id], action))
  ELSE Err(s, MSG.COMMENT_NOT_FOUND)


(***************************************************************************)
(* Inputs of the calls.                                                    *)
(***************************************************************************)
SlugA == Bytes(DEFAULT_SLUG_MIN_LEN, 97)
SlugB == Bytes(DEFAULT_SLUG_MIN_LEN, 98)
SlugC == Bytes(DEFAULT_SLUG_MIN_LEN, 99)
SlugShort == Bytes(DEFAULT_SLUG_MIN_LEN - 1, 97)
HashA == Bytes(DEFAULT_IPFS_HASH_LEN, 81)
HashB == Bytes(DEFAULT_IPFS_HASH_LEN, 82)
HashBad == Bytes(DEFAULT_IPFS_HASH_LEN - 1, 81)
NameA == Bytes(DEFAULT_USERNAME_MIN_LEN, 65)
NameB == Bytes(DEFAULT_USERNAME_MIN_LEN, 66)
NameBad == <<65, 66, 32>>

Opt(S) == {None} \cup {Some(x) : x \in S}
Extensions == {RegularPost} \cup {SharedPost(p) : p \in PostIds} \cup {SharedComment(c) : c \in CommentIds}
ScoreDiffs == {I16_MIN, DEFAULT_DOWNVOTE_POST_ACTION_WEIGHT, 0, DEFAULT_UPVOTE_POST_ACTION_WEIGHT, I16_MAX}

(***************************************************************************)
(* Init and the actions: one per dispatchable or public function.          *)
(***************************************************************************)
Init ==
  /\ store = InitStore
  /\ result = "None"
  /\ steps = 0
  /\ overflow_checks \in BOOLEAN
  /\ given_reputation = 1
  /\ score_diffs = None

\* A call that ended with result r.  A panic aborts the call: none of its
\* writes is kept.
Do(r) ==
  /\ store' = IF r.err = PANIC THEN store ELSE r.st
  /\ result' = IF r.ok THEN "Ok" ELSE IF r.err = PANIC THEN "Panic" ELSE "Err"
  /\ steps' = steps + 1
  /\ UNCHANGED <<overflow_checks, given_reputation, score_diffs>>

CreateBlog(slugs, hashes) ==
  \E owner \in Accounts, slug \in slugs, ipfs_hash \in hashes :
    /\ store.NextBlogId <= MaxBlogs
    /\ Do(create_blog(store, overflow_checks, owner, slug, ipfs_hash))

UpdateBlog(writers, slugs, hashes) ==
  \E owner \in Accounts, blog_id \in BlogIds, w \in writers, sl \in slugs, h \in hashes :
    Do(update_blog(store, overflow_checks, owner, blog_id, [writers |-> w, slug |-> sl, ipfs_hash |-> h]))

FollowBlogCall ==
  \E follower \in Accounts, blog_id \in BlogIds :
    Do(follow_blog(store, overflow_checks, follower, blog_id))

UnfollowBlogCall ==
  \E follower \in Accounts, blog_id \in BlogIds :
    Do(unfollow_blog(store, overflow_checks, follower, blog_id))

FollowAccountCall ==
  \E follower \in Accounts, account \in Accounts :
    Do(follow_account(store, overflow_checks, follower, account))

UnfollowAccountCall ==
  \E follower \in Accounts, account \in Accounts :
    Do(unfollow_account(store, overflow_checks, follower, account))

CreatePost(hashes, extensions) ==
  \E owner \in Accounts, blog_id \in BlogIds, ipfs_hash \in hashes, extension \in extensions :
    /\ store.NextPostId <= MaxPosts
    /\ Do(create_post(store, overflow_checks, owner, blog_id, ipfs_hash, extension))

UpdatePost(blogs, hashes) ==
  \E owner \in Accounts, post_id \in PostIds, b \in blogs, h \in hashes :
    Do(update_post(store, overflow_checks, owner, post_id, [blog_id |-> b, ipfs_hash |-> h]))

CreateCommentCall(parents, hashes) ==
  \E owner \in Accounts, post_id \in PostIds, parent_id \in parents, ipfs_hash \in hashes :
    /\ store.NextCommentId <= MaxComments
    /\ Do(create_comment(store, overflow_checks, owner, post_id, parent_id, ipfs_hash))

UpdateComment(hashes) ==
  \E owner \in Accounts, comment_id \in CommentIds, h \in hashes :
    Do(update_comment(store, overflow_checks, owner, comment_id, [ipfs_hash |-> h]))

CreatePostReaction ==
  \E owner \in Accounts, post_id \in PostIds, kind \in ReactionKind :
    /\ store.NextReactionId <= MaxReactions
    /\ Do(create_post_reaction(store, overflow_checks, owner, post_id, kind))

CreateCommentReaction ==
  \E owner \in Accounts, comment_id \in CommentIds, kind \in ReactionKind :
    /\ store.NextReactionId <= MaxReactions
    /\ Do(create_comment_reaction(store, overflow_checks, owner, comment_id, kind))

UpdatePostReaction ==
  \E owner \in Accounts, post_id \in PostIds, reaction_id \in ReactionIds, new_kind \in ReactionKind :
    Do(update_post_reaction(store, overflow_checks, owner, post_id, reaction_id, new_kind))

UpdateCommentReaction ==
  \E owner \in Accounts, comment_id \in CommentIds, reaction_id \in ReactionIds, new_kind \in ReactionKind :
    Do(update_comment_reaction(store, overflow_checks, owner, comment_id, reaction_id, new_kind))

DeletePostReaction ==
  \E owner \in Accounts, post_id \in PostIds, reaction_id \in ReactionIds :
    Do(delete_post_reaction(store, overflow_checks, owner, post_id, reaction_id))

DeleteCommentReaction ==
  \E owner \in Accounts, comment_id \in CommentIds, reaction_id \in ReactionIds :
    Do(delete_comment_reaction(store, overflow_checks, owner, comment_id, reaction_id))

CreateProfile(usernames, hashes) ==
  \E owner \in Accounts, username \in usernames, ipfs_hash \in hashes :
    Do(create_profile(store, overflow_checks, owner, username, ipfs_hash))

UpdateProfile(usernames, hashes) ==
  \E owner \in Accounts, u \in usernames, h \in hashes :
    Do(update_profile(store, overflow_checks, owner, [username |-> u, ipfs_hash |-> h]))

ChangePostScore(actions) ==
  \E account \in Accounts, post_id \in PostIds, action \in actions :
    Do(change_post_score_by_id(store, overflow_checks, account, post_id, action))

ChangeCommentScore(actions) ==
  \E account \in Accounts, comment_id \in CommentIds, action \in actions :
    Do(change_comment_score_by_id(store, overflow_checks, account, comment_id, action))

ChangeSocialAccountReputation(diffs, actions) ==
  \E account \in Accounts, scorer \in Accounts, score_diff \in diffs, action \in actions :
    Do(change_social_account_reputation(store, overflow_checks, account, scorer, score_diff, action))

(***************************************************************************)
(* Every operation of the module.                                          *)
(***************************************************************************)
Next ==
  \/ steps < MaxSteps /\ CreateBlog({SlugA, SlugB, SlugShort}, {HashA, HashBad})
  \/ steps < MaxSteps /\ UpdateBlog(Opt({<<1>>}), Opt({SlugA, SlugB}), Opt({HashA}))
  \/ steps < MaxSteps /\ FollowBlogCall
  \/ steps < MaxSteps /\ UnfollowBlogCall
  \/ steps < MaxSteps /\ FollowAccountCall
  \/ steps < MaxSteps /\ UnfollowAccountCall
  \/ steps < MaxSteps /\ CreatePost({HashA}, Extensions)
  \/ steps < MaxSteps /\ UpdatePost(Opt(BlogIds), Opt({HashA, HashB}))
  \/ steps < MaxSteps /\ CreateCommentCall(Opt(CommentIds), {HashA})
  \/ steps < MaxSteps /\ UpdateComment({HashA, HashB})
  \/ steps < MaxSteps /\ CreatePostReaction
  \/ steps < MaxSteps /\ CreateCommentReaction
  \/ steps < MaxSteps /\ UpdatePostReaction
  \/ steps < MaxSteps /\ UpdateCommentReaction
  \/ steps < MaxSteps /\ DeletePostReaction
  \/ steps < MaxSteps /\ DeleteCommentReaction
  \/ steps < MaxSteps /\ CreateProfile({NameA, NameBad}, {HashA})
  \/ steps < MaxSteps /\ UpdateProfile(Opt({NameA, NameB}), Opt({HashA, HashB}))
  \/ steps < MaxSteps /\ ChangePostScore({UpvotePost, DownvotePost})
  \/ steps < MaxSteps /\ ChangeCommentScore({UpvoteComment, DownvoteComment})
  \/ steps < MaxSteps /\ ChangeSocialAccountReputation(ScoreDiffs, {DownvotePost, FollowAccount})

Spec == Init /\ [][Next]_vars

(***************************************************************************)
(* The dispatchable calls only.                                            *)
(***************************************************************************)
NextPublic ==
  \/ steps < MaxStepsPublic /\ CreateBlog({SlugA, SlugB, SlugShort}, {HashA, HashBad})
  \/ steps < MaxStepsPublic /\ UpdateBlog(Opt({<<1>>}), Opt({SlugA, SlugB}), Opt({HashA}))
  \/ steps < MaxStepsPublic /\ FollowBlogCall
  \/ steps < MaxStepsPublic /\ UnfollowBlogCall
  \/ steps < MaxStepsPublic /\ FollowAccountCall
  \/ steps < MaxStepsPublic /\ UnfollowAccountCall
  \/ steps < MaxStepsPublic /\ CreatePost({HashA}, Extensions)
  \/ steps < MaxStepsPublic /\ UpdatePost(Opt(BlogIds), Opt({HashA, HashB}))
  \/ steps < MaxStepsPublic /\ CreateCommentCall(Opt(CommentIds), {HashA})
  \/ steps < MaxStepsPublic /\ UpdateComment({HashA, HashB})
  \/ steps < MaxStepsPublic /\ CreatePostReaction
  \/ steps < MaxStepsPublic /\ CreateCommentReaction
  \/ steps < MaxStepsPublic /\ UpdatePostReaction
  \/ steps < MaxStepsPublic /\ UpdateCommentReaction
  \/ steps < MaxStepsPublic /\ DeletePostReaction
  \/ steps < MaxStepsPublic /\ DeleteCommentReaction
  \/ steps < MaxStepsPublic /\ CreateProfile({NameA, NameBad}, {HashA})
  \/ steps < MaxStepsPublic /\ UpdateProfile(Opt({NameA, NameB}), Opt({HashA, HashB}))

SpecPublic == Init /\ [][NextPublic]_vars

(***************************************************************************)
(* The follow operations alone, on blogs made by create_blog.              *)
(***************************************************************************)
NextFollow ==
  \/ steps < MaxStepsFollow /\ CreateBlog({SlugA, SlugB, SlugC}, {HashA})
  \/ steps < MaxStepsFollow /\ FollowBlogCall
  \/ steps < MaxStepsFollow /\ UnfollowBlogCall
  \/ steps < MaxStepsFollow /\ FollowAccountCall
  \/ steps < MaxStepsFollow /\ UnfollowAccountCall

SpecFollow == Init /\ [][NextFollow]_vars

(***************************************************************************)
(* Voting: new reactions and the score functions, on posts and comments.   *)
(***************************************************************************)
NextVote ==
  \/ steps < MaxStepsVote /\ CreateBlog({SlugA}, {HashA})
  \/ steps < MaxStepsVote /\ CreatePost({HashA}, {RegularPost})
  \/ steps < MaxStepsVote /\ CreateCommentCall({None}, {HashA})
  \/ steps < MaxStepsVote /\ CreatePostReaction
  \/ steps < MaxStepsVote /\ CreateCommentReaction
  \/ steps < MaxStepsVote /\ ChangePostScore({UpvotePost, DownvotePost})
  \/ steps < MaxStepsVote /\ ChangeCommentScore({UpvoteComment, DownvoteComment})

SpecVote == Init /\ [][NextVote]_vars

(***************************************************************************)
(* Every operation that writes a social account, or that reaches           *)
(* change_social_account_reputation.                                       *)
(***************************************************************************)
NextAccounts ==
  \/ steps < MaxStepsAccounts /\ CreateBlog({SlugA, SlugB}, {HashA})
  \/ steps < MaxStepsAccounts /\ FollowBlogCall
  \/ steps < MaxStepsAccounts /\ UnfollowBlogCall
  \/ steps < MaxStepsAccounts /\ FollowAccountCall
  \/ steps < MaxStepsAccounts /\ UnfollowAccountCall
  \/ steps < MaxStepsAccounts /\ CreatePost({HashA}, {RegularPost})
  \/ steps < MaxStepsAccounts /\ CreateCommentCall({None}, {HashA})
  \/ steps < MaxStepsAccounts /\ CreatePostReaction
  \/ steps < MaxStepsAccounts /\ CreateCommentReaction
  \/ steps < MaxStepsAccounts /\ CreateProfile({NameA}, {HashA})
  \/ steps < MaxStepsAccounts /\ UpdateProfile({Some(NameB)}, {None})
  \/ steps < MaxStepsAccounts /\ ChangePostScore({UpvotePost, DownvotePost})
  \/ steps < MaxStepsAccounts /\ ChangeCommentScore({UpvoteComment, DownvoteComment})
  \/ steps < MaxStepsAccounts /\ ChangeSocialAccountReputation(ScoreDiffs, {FollowAccount})

SpecAccounts == Init /\ [][NextAccounts]_vars

(***************************************************************************)
(* Reactions on posts: created, changed and removed, with any post_id and  *)
(* reaction_id arguments.                                                  *)
(***************************************************************************)
NextReact ==
  \/ steps < MaxStepsReact /\ CreateBlog({SlugA}, {HashA})
  \/ steps < MaxStepsReact /\ CreatePost({HashA}, {RegularPost})
  \/ steps < MaxStepsReact /\
       \E owner \in Accounts, post_id \in PostIds, kind \in ReactionKind :
         /\ store.NextReactionId <= MaxReactionsReact
         /\ Do(create_post_reaction(store, overflow_checks, owner, post_id, kind))
  \/ steps < MaxStepsReact /\
       \E owner \in Accounts, post_id \in PostIds, reaction_id \in 1..MaxReactionsReact,
          new_kind \in ReactionKind :
         Do(update_post_reaction(store, overflow_checks, owner, post_id, reaction_id, new_kind))
  \/ steps < MaxStepsReact /\
       \E owner \in Accounts, post_id \in PostIds, reaction_id \in 1..MaxReactionsReact :
         Do(delete_post_reaction(store, overflow_checks, owner, post_id, reaction_id))

SpecReact == Init /\ [][NextReact]_vars

(***************************************************************************)
(* Blogs: every call that writes BlogById or BlogIdBySlug, with valid and  *)
(* invalid slugs and hashes.                                               *)
(***************************************************************************)
NextBlog ==
  \/ steps < MaxStepsBlog /\ CreateBlog({SlugA, SlugB, SlugShort}, {HashA, HashBad})
  \/ steps < MaxStepsBlog /\ UpdateBlog(Opt({<<1>>}), Opt({SlugA, SlugB, SlugShort}), Opt({HashB, HashBad}))
  \/ steps < MaxStepsBlog /\ FollowBlogCall
  \/ steps < MaxStepsBlog /\ UnfollowBlogCall
  \/ steps < MaxStepsBlog /\ CreatePost({HashA}, {RegularPost})

SpecBlog == Init /\ [][NextBlog]_vars

(***************************************************************************)
(* get_score_diff called directly, as the rating tests do, on every        *)
(* reputation up to MaxReputation and every scoring action.                *)
(***************************************************************************)
InitScore ==
  /\ store = InitStore
  /\ result = "None"
  /\ steps = 0
  /\ overflow_checks \in BOOLEAN
  /\ given_reputation \in 1..MaxReputation
  /\ score_diffs = None

GetScoreDiff ==
  /\ score_diffs = None
  /\ score_diffs' = Some([action \in ScoringAction |-> get_score_diff(given_reputation, action)])
  /\ UNCHANGED <<store, result, steps, overflow_checks, given_reputation>>

NextScore == GetScoreDiff

SpecScore == InitScore /\ [][NextScore]_vars

(***************************************************************************)
(* Sharing: posts that are regular, or that share a post or a comment.     *)
(***************************************************************************)
NextShare ==
  \/ steps < MaxStepsShare /\ CreateBlog({SlugA}, {HashA})
  \/ steps < MaxStepsShare /\
       \E owner \in Accounts, blog_id \in BlogIds, extension \in Extensions :
         /\ store.NextPostId <= MaxPostsShare
         /\ Do(create_post(store, overflow_checks, owner, blog_id, HashA, extension))
  \/ steps < MaxStepsShare /\ CreateCommentCall({None}, {HashA})

SpecShare == Init /\ [][NextShare]_vars

(***************************************************************************)
(* Profiles: create_profile and update_profile with valid, invalid and     *)
(* taken usernames, and the other calls that write a SocialAccount.        *)
(***************************************************************************)
NextProfile ==
  \/ steps < MaxStepsProfile /\ CreateProfile({NameA, NameB, NameBad}, {HashA, HashBad})
  \/ steps < MaxStepsProfile /\ UpdateProfile(Opt({NameA, NameB, NameBad}), Opt({HashB, HashBad}))
  \/ steps < MaxStepsProfile /\ CreateBlog({SlugA}, {HashA})
  \/ steps < MaxStepsProfile /\ FollowBlogCall
  \/ steps < MaxStepsProfile /\ UnfollowBlogCall
  \/ steps < MaxStepsProfile /\ FollowAccountCall
  \/ steps < MaxStepsProfile /\ UnfollowAccountCall

SpecProfile == Init /\ [][NextProfile]_vars

(***************************************************************************)
(* Posts: created in a blog, regular or sharing the first post, and moved  *)
(* between blogs by update_post, with and without a hash that is refused.  *)
(***************************************************************************)
NextPost ==
  \/ steps < MaxStepsPost /\ CreateBlog({SlugA, SlugB}, {HashA})
  \/ steps < MaxStepsPost /\ CreatePost({HashA}, {RegularPost, SharedPost(1)})
  \/ steps < MaxStepsPost /\ UpdatePost(Opt(BlogIds), Opt({HashBad}))

SpecPost == Init /\ [][NextPost]_vars

(***************************************************************************)
(* get_score_diff over the u32 range: reputations 2^r + e with the excess  *)
(* e at both ends of [0, 2^r) and on both sides of the largest excess      *)
(* whose hundredfold fits in a u32.                                        *)
(***************************************************************************)
WideReputations ==
  UNION {{2^r + e : e \in {0, 1, I32_MAX \div 50, I32_MAX \div 50 + 1, 2^r - 1} \cap (0..(2^r - 1))} :
           r \in 0..MaxLog2}

InitWide ==
  /\ store = InitStore
  /\ result = "None"
  /\ steps = 0
  /\ overflow_checks \in BOOLEAN
  /\ given_reputation \in WideReputations
  /\ score_diffs = None

GetScoreDiffWide ==
  /\ score_diffs = None
  /\ score_diffs' = Some([action \in ScoringAction |->
                            get_score_diff_u32(overflow_checks, given_reputation, action)])
  /\ UNCHANGED <<store, result, steps, overflow_checks, given_reputation>>

NextWide == GetScoreDiffWide

SpecWide == InitWide /\ [][NextWide]_vars

(***************************************************************************)
(* The multisig wallet module (multisig/wallet.rs).  `store` holds the     *)
(* storage of that module and the free balances of the balances module;    *)
(* SubmittedTo and Executions are history fields: the wallet each          *)
(* transaction was submitted to and the transfers execute_transaction made.*)
(***************************************************************************)
MIN_MULTISIG_WALLET_OWNERS == 2
MAX_MULTISIG_WALLET_OWNERS == 16
MAX_TRANSACTION_NOTES_LEN == 256

WALLET_MSG == [
  NOT_ENOUGH_OWNERS                  |-> "There can not be less owners than allowed",
  TOO_MANY_OWNERS                    |-> "There can not be more owners than allowed",
  MORE_CONFIRMS_REQUIRED_THAN_OWNERS |-> "The required confirmation count can not be greater than owners count",
  CANNOT_REQUIRE_ZERO_CONFIRMS       |-> "The required confirmation count can not be less than 1",
  WALLET_NOT_FOUND                   |-> "Multi-signature wallet not found by id",
  NOT_A_WALLET_OWNER                 |-> "Account is not a wallet owner",
  TX_NOTES_GREATER_THAN_ALLOWED      |-> "Transaction notes are too long",
  TRANSACTION_NOT_FOUND              |-> "Transaction not found in a wallet",
  TX_VALUE_GREATER_THAN_ALLOWED      |-> "Transaction value is greater than allowed",
  TX_VALUE_GREATER_THAN_BALANCE      |-> "Transaction value is greater than a wallet balance",
  ACCOUNT_ALREADY_CONFIRMED_TX       |-> "Account has already confirmed this transaction",
  NOT_ENOUGH_CONFIRMS_ON_TX          |-> "There are not enough confirmations on a transaction",
  FREE_BALANCE_TOO_LOW               |-> "Wallet's free balance is lower than a transaction value",
  TX_ALREADY_EXECUTED                |-> "Transaction is already executed",
  BALANCE_TOO_LOW                    |-> "balance too low to send value" ]

WalletOwners == 1..MaxOwners
WalletIds == (MaxOwners + 1)..(MaxOwners + MaxWallets)
Destination == MaxOwners + MaxWallets + 1
TxIds == 1..MaxTxs

InitWalletStore ==
  [ WalletById |-> EmptyMap, WalletIdsByAccountId |-> EmptyMap, TxById |-> EmptyMap,
    PendingTxIdsByWalletId |-> EmptyMap, ExecutedTxIdsByWalletId |-> EmptyMap, NextTxId |-> 1,
    FreeBalance |-> [w \in WalletIds |-> WalletFunds],
    SubmittedTo |-> EmptyMap, Executions |-> <<>> ]

contains(vector, element) == \E i \in 1..Len(vector) : vector[i] = element

\* The loop of lines 92-97: the owners in the order given, each one once.
RECURSIVE wallet_owners_of(_, _)
wallet_owners_of(owners, wallet_owners) ==
  IF owners = <<>> THEN wallet_owners
  ELSE wallet_owners_of(Tail(owners),
                        IF contains(wallet_owners, Head(owners)) THEN wallet_owners
                        ELSE Append(wallet_owners, Head(owners)))

create_wallet(s, creator, wallet_id, owners, max_tx_value, confirms_required) ==
  LET wallet_owners == wallet_owners_of(owners, <<>>)
      owners_count == Len(wallet_owners)
      new_wallet == [created |-> new_change(creator), id |-> wallet_id, owners |-> wallet_owners,
                     max_tx_value |-> max_tx_value, confirms_required |-> confirms_required]
  IN IF ~(owners_count >= MIN_MULTISIG_WALLET_OWNERS) THEN Err(s, WALLET_MSG.NOT_ENOUGH_OWNERS)
     ELSE IF ~(owners_count <= MAX_MULTISIG_WALLET_OWNERS) THEN Err(s, WALLET_MSG.TOO_MANY_OWNERS)
     ELSE IF ~(confirms_required <= owners_count) THEN Err(s, WALLET_MSG.MORE_CONFIRMS_REQUIRED_THAN_OWNERS)
     ELSE IF ~(confirms_required > 0) THEN Err(s, WALLET_MSG.CANNOT_REQUIRE_ZERO_CONFIRMS)
     ELSE Ok([s EXCEPT
                !.WalletById = insert(@, wallet_id, new_wallet),
                !.WalletIdsByAccountId =
                   [owner \in (DOMAIN @) \cup {wallet_owners[i] : i \in 1..owners_count} |->
                      IF contains(wallet_owners, owner) THEN Append(get(@, owner, <<>>), wallet_id)
                      ELSE @[owner]]])

free_balance(s, who) == get(s.FreeBalance, who, 0)

\* Currency::transfer of the balances module, without fees and without an
\* existential deposit: it fails when the source holds less than the value.
transfer(s, source, dest, value) ==
  IF free_balance(s, source) < value THEN Err(s, WALLET_MSG.BALANCE_TOO_LOW)
  ELSE LET debited == [s EXCEPT !.FreeBalance = insert(@, source, free_balance(s, source) - value)]
       IN Ok([debited EXCEPT !.FreeBalance = insert(@, dest, free_balance(debited, dest) + value)])

submit_transaction(s, sender, wallet_id, destination, value, notes) ==
  IF ~(Len(notes) <= MAX_TRANSACTION_NOTES_LEN) THEN Err(s, WALLET_MSG.TX_NOTES_GREATER_THAN_ALLOWED)
  ELSE IF ~exists(s.WalletById, wallet_id) THEN Err(s, WALLET_MSG.WALLET_NOT_FOUND)
  ELSE
    LET wallet == s.WalletById[wallet_id]
        transaction_id == s.NextTxId
        new_transaction == [created |-> new_change(sender), id |-> transaction_id,
                            destination |-> destination, value |-> value, notes |-> notes,
                            confirmed_by |-> <<sender>>, executed |-> FALSE]
    IN IF ~contains(wallet.owners, sender) THEN Err(s, WALLET_MSG.NOT_A_WALLET_OWNER)
       ELSE IF ~(value <= wallet.max_tx_value) THEN Err(s, WALLET_MSG.TX_VALUE_GREATER_THAN_ALLOWED)
       ELSE IF ~(value <= free_balance(s, wallet_id)) THEN Err(s, WALLET_MSG.TX_VALUE_GREATER_THAN_BALANCE)
       ELSE Ok([s EXCEPT
                  !.TxById = insert(@, transaction_id, new_transaction),
                  !.PendingTxIdsByWalletId = mutate_push(@, wallet_id, transaction_id),
                  !.NextTxId = @ + 1,
                  !.SubmittedTo = insert(@, transaction_id, wallet_id)])

change_tx_from_pending_to_executed(s, wallet_id, tx_id) ==
  IF ~exists(s.WalletById, wallet_id) THEN Err(s, WALLET_MSG.WALLET_NOT_FOUND)
  ELSE IF ~exists(s.TxById, tx_id) THEN Err(s, WALLET_MSG.TRANSACTION_NOT_FOUND)
  ELSE IF contains(get(s.ExecutedTxIdsByWalletId, wallet_id, <<>>), tx_id)
  THEN Err(s, WALLET_MSG.TX_ALREADY_EXECUTED)
  ELSE Ok([s EXCEPT
             !.PendingTxIdsByWalletId = mutate_remove(@, wallet_id, tx_id),
             !.ExecutedTxIdsByWalletId = mutate_push(@, wallet_id, tx_id)])

execute_transaction(s, executer, wallet, transaction) ==
  LET wallet_id == wallet.id
      tx_id == transaction.id
      transferred(r) ==
        IF ~r.ok THEN r
        ELSE change_tx_from_pending_to_executed(
               [r.st EXCEPT !.TxById = insert(@, tx_id, [transaction EXCEPT !.executed = TRUE]),
                            !.Executions = Append(@, [tx_id |-> tx_id, wallet_id |-> wallet_id])],
               wallet_id, tx_id)
  IN IF ~(Len(transaction.confirmed_by) = wallet.confirms_required)
     THEN Err(s, WALLET_MSG.NOT_ENOUGH_CONFIRMS_ON_TX)
     ELSE IF ~(transaction.value <= free_balance(s, wallet_id)) THEN Err(s, WALLET_MSG.FREE_BALANCE_TOO_LOW)
     ELSE transferred(transfer(s, wallet_id, transaction.destination, transaction.value))

confirm_transaction(s, sender, wallet_id, tx_id) ==
  IF ~exists(s.WalletById, wallet_id) THEN Err(s, WALLET_MSG.WALLET_NOT_FOUND)
  ELSE IF ~contains(s.WalletById[wallet_id].owners, sender) THEN Err(s, WALLET_MSG.NOT_A_WALLET_OWNER)
  ELSE IF ~exists(s.TxById, tx_id) THEN Err(s, WALLET_MSG.TRANSACTION_NOT_FOUND)
  ELSE IF contains(s.TxById[tx_id].confirmed_by, sender) THEN Err(s, WALLET_MSG.ACCOUNT_ALREADY_CONFIRMED_TX)
  ELSE
    LET wallet == s.WalletById[wallet_id]
        transaction == [s.TxById[tx_id] EXCEPT !.confirmed_by = Append(@, sender)]
    IN IF Len(transaction.confirmed_by) = wallet.confirms_required
       THEN execute_transaction(s, sender, wallet, transaction)
       ELSE Ok([s EXCEPT !.TxById = insert(@, tx_id, transaction)])

\* No handler of the wallet module reads overflow_checks.
InitWallet ==
  /\ store = InitWalletStore
  /\ result = "None"
  /\ steps = 0
  /\ overflow_checks = TRUE
  /\ given_reputation = 1
  /\ score_diffs = None

CreateWallet ==
  \E creator \in {1}, wallet_id \in WalletIds, owners \in {<<1, 2>>, <<1, 2, 3>>, <<1, 1>>},
     confirms_required \in 0..MaxOwners :
    Do(create_wallet(store, creator, wallet_id, owners, WalletFunds, confirms_required))

SubmitTransaction ==
  \E sender \in WalletOwners, wallet_id \in WalletIds, value \in 1..(WalletFunds + 1) :
    /\ store.NextTxId <= MaxTxs
    /\ Do(submit_transaction(store, sender, wallet_id, Destination, value, <<>>))

ConfirmTransaction ==
  \E sender \in WalletOwners, wallet_id \in WalletIds, tx_id \in TxIds :
    Do(confirm_transaction(store, sender, wallet_id, tx_id))

NextWallet ==
  \/ steps < MaxStepsWallet /\ CreateWallet
  \/ steps < MaxStepsWallet /\ SubmitTransaction
  \/ steps < MaxStepsWallet /\ ConfirmTransaction

SpecWallet == InitWallet /\ [][NextWallet]_vars

(***************************************************************************)
(* Properties.                                                             *)
(***************************************************************************)

\* C1: in every state reachable by the operations of the module, the direct
\* calls of change_post_score, change_comment_score and
\* change_social_account_reputation with any i16 score_diff included, every
\* stored SocialAccount has reputation >= 1.
C1_ReputationAtLeastOne ==
  \A a \in DOMAIN store.SocialAccountById : store.SocialAccountById[a].reputation >= 1

\* A downvote was scored on a post whose creator's reputation the downvote
\* would have taken below 1: the reputation is 1 and the recorded
\* reputation change is 0, not the downvote's weight.
C1_Witness ==
  \E k \in DOMAIN store.PostScoreByAccount :
    /\ k[3] = DownvotePost
    /\ store.PostScoreByAccount[k] < 0
    /\ LET creator == store.PostById[k[2]].created.account
           rkey == <<k[1], creator, DownvotePost>>
       IN /\ exists(store.AccountReputationDiffByAccount, rkey)
          /\ store.AccountReputationDiffByAccount[rkey] = 0
          /\ store.SocialAccountById[creator].reputation = 1

\* The results of every public call that can be made in state s.
PublicCalls(s, oc) ==
  {create_blog(s, oc, a, sl, h) : a \in Accounts, sl \in {SlugA, SlugB, SlugShort}, h \in {HashA, HashBad}}
  \cup {update_blog(s, oc, a, b, [writers |-> w, slug |-> sl, ipfs_hash |-> h]) :
          a \in Accounts, b \in BlogIds, w \in Opt({<<1>>}), sl \in Opt({SlugA, SlugB}), h \in Opt({HashA})}
  \cup {follow_blog(s, oc, a, b) : a \in Accounts, b \in BlogIds}
  \cup {unfollow_blog(s, oc, a, b) : a \in Accounts, b \in BlogIds}
  \cup {follow_account(s, oc, a, b) : a \in Accounts, b \in Accounts}
  \cup {unfollow_account(s, oc, a, b) : a \in Accounts, b \in Accounts}
  \cup {create_post(s, oc, a, b, h, e) : a \in Accounts, b \in BlogIds, h \in {HashA}, e \in Extensions}
  \cup {update_post(s, oc, a, p, [blog_id |-> b, ipfs_hash |-> h]) :
          a \in Accounts, p \in PostIds, b \in Opt(BlogIds), h \in Opt({HashA, HashB})}
  \cup {create_comment(s, oc, a, p, c, h) : a \in Accounts, p \in PostIds, c \in Opt(CommentIds), h \in {HashA}}
  \cup {update_comment(s, oc, a, c, [ipfs_hash |-> h]) : a \in Accounts, c \in CommentIds, h \in {HashA, HashB}}
  \cup {create_post_reaction(s, oc, a, p, k) : a \in Accounts, p \in PostIds, k \in ReactionKind}
  \cup {create_comment_reaction(s, oc, a, c, k) : a \in Accounts, c \in CommentIds, k \in ReactionKind}
  \cup {update_post_reaction(s, oc, a, p, r, k) :
          a \in Accounts, p \in PostIds, r \in ReactionIds, k \in ReactionKind}
  \cup {update_comment_reaction(s, oc, a, c, r, k) :
          a \in Accounts, c \in CommentIds, r \in ReactionIds, k \in ReactionKind}
  \cup {delete_post_reaction(s, oc, a, p, r) : a \in Accounts, p \in PostIds, r \in ReactionIds}
  \cup {delete_comment_reaction(s, oc, a, c, r) : a \in Accounts, c \in CommentIds, r \in ReactionIds}
  \cup {create_profile(s, oc, a, u, h) : a \in Accounts, u \in {NameA, NameBad}, h \in {HashA}}
  \cup {update_profile(s, oc, a, [username |-> u, ipfs_hash |-> h]) :
          a \in Accounts, u \in Opt({NameA, NameB}), h \in Opt({HashA, HashB})}

\* C2: a public operation that returns an error leaves the whole stored
\* state unchanged.
C2_ErrorLeavesStateUnchanged ==
  \A r \in PublicCalls(store, overflow_checks) : (~r.ok /\ r.err /= PANIC) => r.st = store

reputation_of(s, account) == get_or_new_social_account(s, account).reputation

no_post_score_entry(s, account, post_id) ==
  \A action \in ScoringAction : ~exists(s.PostScoreByAccount, <<account, post_id, action>>)

no_comment_score_entry(s, account, comment_id) ==
  \A action \in ScoringAction : ~exists(s.CommentScoreByAccount, <<account, comment_id, action>>)

\* The same vote made twice in succession on a post, or on a comment.
post_toggle_restores(s, oc, account, post_id, action) ==
  LET creator == s.PostById[post_id].created.account
      twice(r1, r2) ==
        /\ r1.ok
        /\ r2.ok
        /\ r2.st.PostById[post_id].score = s.PostById[post_id].score
        /\ reputation_of(r2.st, creator) = reputation_of(s, creator)
        /\ ~exists(r2.st.PostScoreByAccount, <<account, post_id, action>>)
      first(r1) == twice(r1, change_post_score_by_id(r1.st, oc, account, post_id, action))
  IN first(change_post_score_by_id(s, oc, account, post_id, action))

comment_toggle_restores(s, oc, account, comment_id, action) ==
  LET creator == s.CommentById[comment_id].created.account
      twice(r1, r2) ==
        /\ r1.ok
        /\ r2.ok
        /\ r2.st.CommentById[comment_id].score = s.CommentById[comment_id].score
        /\ reputation_of(r2.st, creator) = reputation_of(s, creator)
        /\ ~exists(r2.st.CommentScoreByAccount, <<account, comment_id, action>>)
      first(r1) == twice(r1, change_comment_score_by_id(r1.st, oc, account, comment_id, action))
  IN first(change_comment_score_by_id(s, oc, account, comment_id, action))

\* C3: for a post (a comment) and an actor who is not its creator and has no
\* score-ledger entry on it, change_post_score (change_comment_score) called
\* twice in succession with the same vote succeeds both times, leaves the
\* score and the creator's reputation as they were before the first call,
\* and leaves no ledger entry for (actor, content, action).
C3_IdempotentToggle ==
  /\ \A post_id \in DOMAIN store.PostById, account \in Accounts, action \in {UpvotePost, DownvotePost} :
       (account /= store.PostById[post_id].created.account /\ no_post_score_entry(store, account, post_id))
         => post_toggle_restores(store, overflow_checks, account, post_id, action)
  /\ \A comment_id \in DOMAIN store.CommentById, account \in Accounts,
        action \in {UpvoteComment, DownvoteComment} :
       (account /= store.CommentById[comment_id].created.account
          /\ no_comment_score_entry(store, account, comment_id))
         => comment_toggle_restores(store, overflow_checks, account, comment_id, action)

\* A vote on a post followed at once by the opposite vote of the same actor.
post_vote_replaced(s, oc, account, post_id, first_action, second_action) ==
  LET both(r1, r2) ==
        /\ r1.ok
        /\ r2.ok
        /\ r2.st.PostById[post_id].score =
             s.PostById[post_id].score + get_score_diff(reputation_of(s, account), second_action)
        /\ exists(r2.st.PostScoreByAccount, <<account, post_id, second_action>>)
        /\ ~exists(r2.st.PostScoreByAccount, <<account, post_id, first_action>>)
      first(r1) == both(r1, change_post_score_by_id(r1.st, oc, account, post_id, second_action))
  IN first(change_post_score_by_id(s, oc, account, post_id, first_action))

\* C4: for a post P and an actor A who is not its creator and has no
\* score-ledger entry on P, an upvote followed by a downvote ends with
\* P.score = its initial value + get_score_diff(reputation(A), DownvotePost),
\* a DownvotePost entry for (A, P) and no UpvotePost entry; and the same with
\* the two votes exchanged.
C4_AutoCancel ==
  \A post_id \in DOMAIN store.PostById, account \in Accounts :
    (account /= store.PostById[post_id].created.account /\ no_post_score_entry(store, account, post_id))
      => /\ post_vote_replaced(store, overflow_checks, account, post_id, UpvotePost, DownvotePost)
         /\ post_vote_replaced(store, overflow_checks, account, post_id, DownvotePost, UpvotePost)

\* C5: no (actor, post) pair has both an UpvotePost and a DownvotePost entry
\* in the post score ledger, and no (actor, comment) pair has both an
\* UpvoteComment and a DownvoteComment entry in the comment score ledger.
C5_NoOppositeVotesCoexist ==
  /\ \A k \in DOMAIN store.PostScoreByAccount :
       k[3] = UpvotePost => ~exists(store.PostScoreByAccount, <<k[1], k[2], DownvotePost>>)
  /\ \A k \in DOMAIN store.CommentScoreByAccount :
       k[3] = UpvoteComment => ~exists(store.CommentScoreByAccount, <<k[1], k[2], DownvoteComment>>)

\* An account whose reaction on a post is an Upvote has since downvoted the
\* post: the ledger holds the DownvotePost entry for the pair.
C5_Witness ==
  \E k \in DOMAIN store.PostReactionIdByAccount :
    /\ store.ReactionById[store.PostReactionIdByAccount[k]].kind = Upvote
    /\ store.PostById[k[2]].created.account /= k[1]
    /\ exists(store.PostScoreByAccount, <<k[1], k[2], DownvotePost>>)

\* A call that was refused and wrote nothing.
rejected_unchanged(s, r) == ~r.ok /\ r.err /= PANIC /\ r.st = s

\* C6: update_blog, update_post and update_profile called by the owner with
\* a payload whose every field is None or the entity's current value return
\* an error and change no state.
C6_NoOpUpdateRejected ==
  /\ \A blog_id \in DOMAIN store.BlogById :
       LET blog == store.BlogById[blog_id]
       IN \A w \in {None, Some(blog.writers)}, sl \in {None, Some(blog.slug)}, h \in {None, Some(blog.ipfs_hash)} :
            rejected_unchanged(store, update_blog(store, overflow_checks, blog.created.account, blog_id,
                                                  [writers |-> w, slug |-> sl, ipfs_hash |-> h]))
  /\ \A post_id \in DOMAIN store.PostById :
       LET post == store.PostById[post_id]
       IN \A b \in {None, Some(post.blog_id)}, h \in {None, Some(post.ipfs_hash)} :
            rejected_unchanged(store, update_post(store, overflow_checks, post.created.account, post_id,
                                                  [blog_id |-> b, ipfs_hash |-> h]))
  /\ \A owner \in DOMAIN store.SocialAccountById :
       is_some(store.SocialAccountById[owner].profile) =>
         LET profile == unwrap(store.SocialAccountById[owner].profile)
         IN \A u \in {None, Some(profile.username)}, h \in {None, Some(profile.ipfs_hash)} :
              rejected_unchanged(store, update_profile(store, overflow_checks, owner,
                                                       [username |-> u, ipfs_hash |-> h]))

\* follow_blog by the follower and then, when it succeeded, unfollow_blog by
\* the same follower.
follow_then_unfollow_blog_restores(s, oc, follower, blog_id) ==
  LET creator == s.BlogById[blog_id].created.account
      both(r1, r2) ==
        (r1.ok /\ r2.ok) =>
          /\ r2.st.BlogById[blog_id].score = s.BlogById[blog_id].score
          /\ reputation_of(r2.st, creator) = reputation_of(s, creator)
          /\ r2.st.AccountReputationDiffByAccount = s.AccountReputationDiffByAccount
      first(r1) == both(r1, unfollow_blog(r1.st, oc, follower, blog_id))
  IN first(follow_blog(s, oc, follower, blog_id))

\* C7: for a blog B created by C and an account F /= C that is not following
\* B, follow_blog(B) by F immediately followed by unfollow_blog(B) by F
\* restores B.score, C's reputation and the reputation-diff ledger.
C7_FollowUnfollowBlogRestores ==
  \A blog_id \in DOMAIN store.BlogById, follower \in Accounts :
    (follower /= store.BlogById[blog_id].created.account
       /\ ~get(store.BlogFollowedByAccount, <<follower, blog_id>>, FALSE))
      => follow_then_unfollow_blog_restores(store, overflow_checks, follower, blog_id)

is_following_blog(s, follower, blog_id) == get(s.BlogFollowedByAccount, <<follower, blog_id>>, FALSE)

is_following_account(s, follower, account) == exists(s.AccountFollowedByAccount, <<follower, account>>)

\* A follow call with result r: accepted only when not following, and then
\* following; refused without a change when already following.
follow_step(s, r, was_following, now_following) ==
  /\ r.ok => (~was_following /\ now_following)
  /\ was_following => rejected_unchanged(s, r)

\* An unfollow call with result r.
unfollow_step(s, r, was_following, now_following) ==
  /\ r.ok => (was_following /\ ~now_following)
  /\ ~was_following => rejected_unchanged(s, r)

blog_follow_machine(s, oc, follower, blog_id) ==
  LET followed(r) == follow_step(s, r, is_following_blog(s, follower, blog_id),
                                 is_following_blog(r.st, follower, blog_id))
      unfollowed(r) == unfollow_step(s, r, is_following_blog(s, follower, blog_id),
                                     is_following_blog(r.st, follower, blog_id))
  IN /\ followed(follow_blog(s, oc, follower, blog_id))
     /\ unfollowed(unfollow_blog(s, oc, follower, blog_id))

account_follow_machine(s, oc, follower, account) ==
  LET followed(r) == follow_step(s, r, is_following_account(s, follower, account),
                                 is_following_account(r.st, follower, account))
      unfollowed(r) == unfollow_step(s, r, is_following_account(s, follower, account),
                                     is_following_account(r.st, follower, account))
  IN /\ followed(follow_account(s, oc, follower, account))
     /\ unfollowed(unfollow_account(s, oc, follower, account))

\* C8: for every (follower, blog) and (follower, account) pair, a follow is
\* accepted only when the pair is NotFollowing and makes it Following, an
\* unfollow is accepted only when it is Following and makes it NotFollowing;
\* a follow while Following and an unfollow while NotFollowing return an
\* error and change no state.
C8_FollowStateMachine ==
  /\ \A follower \in Accounts, blog_id \in BlogIds :
       blog_follow_machine(store, overflow_checks, follower, blog_id)
  /\ \A follower \in Accounts, account \in Accounts :
       account_follow_machine(store, overflow_checks, follower, account)

\* An account has followed and unfollowed another's blog, so the pair is
\* NotFollowing again, and some account is following another account.
C8_Witness ==
  /\ \E follower \in Accounts, blog_id \in DOMAIN store.BlogById :
       /\ follower /= store.BlogById[blog_id].created.account
       /\ exists(store.BlogsFollowedByAccount, follower)
       /\ store.BlogsFollowedByAccount[follower] = <<>>
       /\ ~is_following_blog(store, follower, blog_id)
  /\ \E follower \in Accounts, account \in Accounts :
       is_following_account(store, follower, account)

\* follow_account by the follower and, when it succeeded, unfollow_account
\* by the same follower.
follow_account_moves_reputation(s, oc, follower, account) ==
  LET rkey == <<follower, account, FollowAccount>>
      diff == get_score_diff(reputation_of(s, follower), FollowAccount)
      undone(r2) ==
        r2.ok => /\ reputation_of(r2.st, account) = reputation_of(s, account)
                 /\ ~exists(r2.st.AccountReputationDiffByAccount, rkey)
      done(r1) ==
        r1.ok => /\ exists(r1.st.AccountReputationDiffByAccount, rkey)
                 /\ r1.st.AccountReputationDiffByAccount[rkey] = diff
                 /\ reputation_of(r1.st, account) = reputation_of(s, account) + diff
                 /\ undone(unfollow_account(r1.st, oc, follower, account))
  IN done(follow_account(s, oc, follower, account))

\* C9: a successful follow_account(T) by F changes T's stored reputation by
\* the diff recorded in the ledger entry (F, T, FollowAccount), which is
\* get_score_diff(reputation(F), FollowAccount); a successful
\* unfollow_account(T) by F after it undoes that change and removes the
\* entry.
C9_FollowAccountReputation ==
  \A follower \in Accounts, account \in Accounts :
    follow_account_moves_reputation(store, overflow_checks, follower, account)

\* The reaction ids by (account, content) index m holds a stored reaction
\* of the kind for the pair.
has_live_reaction(s, m, account, id, kind) ==
  /\ exists(m, <<account, id>>)
  /\ exists(s.ReactionById, m[<<account, id>>])
  /\ s.ReactionById[m[<<account, id>>]].kind = kind

\* C10: through the public operations, the score ledger holds an entry for
\* (A, P, UpvotePost) exactly when A is not P's creator and A has a live
\* Upvote reaction on P; likewise for DownvotePost and Downvote, and for
\* comments.
C10_LedgerMatchesReactions ==
  /\ \A account \in Accounts, post_id \in DOMAIN store.PostById, kind \in ReactionKind :
       exists(store.PostScoreByAccount,
              <<account, post_id, IF kind = Upvote THEN UpvotePost ELSE DownvotePost>>)
         <=> /\ account /= store.PostById[post_id].created.account
             /\ has_live_reaction(store, store.PostReactionIdByAccount, account, post_id, kind)
  /\ \A account \in Accounts, comment_id \in DOMAIN store.CommentById, kind \in ReactionKind :
       exists(store.CommentScoreByAccount,
              <<account, comment_id, IF kind = Upvote THEN UpvoteComment ELSE DownvoteComment>>)
         <=> /\ account /= store.CommentById[comment_id].created.account
             /\ has_live_reaction(store, store.CommentReactionIdByAccount, account, comment_id, kind)

\* The reactions of the account that are stored in ReactionById and listed
\* in the reaction-id list ids of an entity.
live_reactions(s, ids, account) ==
  {r \in {ids[i] : i \in 1..Len(ids)} :
     exists(s.ReactionById, r) /\ s.ReactionById[r].created.account = account}

\* C11: in every reachable state each account has at most one live reaction
\* (a record of ReactionById listed in the content's reaction-id list) on
\* any post and on any comment, whatever create, update and delete reaction
\* calls were made.
C11_AtMostOneLiveReaction ==
  /\ \A account \in Accounts, post_id \in DOMAIN store.ReactionIdsByPostId :
       Cardinality(live_reactions(store, store.ReactionIdsByPostId[post_id], account)) <= 1
  /\ \A account \in Accounts, comment_id \in DOMAIN store.ReactionIdsByCommentId :
       Cardinality(live_reactions(store, store.ReactionIdsByCommentId[comment_id], account)) <= 1

\* C12: in every reachable state blog slugs are unique and the slug index is
\* exact: BlogIdBySlug maps a slug to a blog id exactly when that blog
\* exists and the slug is its current slug, also after update_blog changed
\* a slug and after failed attempts.
C12_SlugIndexExact ==
  /\ \A slug \in DOMAIN store.BlogIdBySlug :
       /\ exists(store.BlogById, store.BlogIdBySlug[slug])
       /\ store.BlogById[store.BlogIdBySlug[slug]].slug = slug
  /\ \A blog_id \in DOMAIN store.BlogById :
       /\ exists(store.BlogIdBySlug, store.BlogById[blog_id].slug)
       /\ store.BlogIdBySlug[store.BlogById[blog_id].slug] = blog_id
  /\ \A b1 \in DOMAIN store.BlogById, b2 \in DOMAIN store.BlogById :
       store.BlogById[b1].slug = store.BlogById[b2].slug => b1 = b2

\* Two blogs exist, one of them with a slug set by update_blog, and the
\* last call was refused.
C12_Witness ==
  /\ result = "Err"
  /\ Cardinality(DOMAIN store.BlogById) >= 2
  /\ \E blog_id \in DOMAIN store.BlogById :
       \E i \in 1..Len(store.BlogById[blog_id].edit_history) :
         is_some(store.BlogById[blog_id].edit_history[i].old_data.slug)

\* The elements of a Vec.
elements(vector) == {vector[i] : i \in 1..Len(vector)}

\* C13: in every reachable state, for every blog B, B.followers_count is
\* the number of accounts in BlogFollowers[B], that list has no duplicates,
\* and an account is in it exactly when its BlogFollowedByAccount flag for B
\* is true and B is in its BlogsFollowedByAccount list.
C13_BlogFollowersConsistent ==
  \A blog_id \in DOMAIN store.BlogById :
    LET followers == get(store.BlogFollowers, blog_id, <<>>)
    IN /\ store.BlogById[blog_id].followers_count = Cardinality(elements(followers))
       /\ Cardinality(elements(followers)) = Len(followers)
       /\ \A account \in Accounts :
            account \in elements(followers)
              <=> /\ is_following_blog(store, account, blog_id)
                  /\ blog_id \in elements(get(store.BlogsFollowedByAccount, account, <<>>))

\* A blog whose creator has unfollowed it and whose only follower is
\* another account.
C13_Witness ==
  \E blog_id \in DOMAIN store.BlogById :
    LET followers == get(store.BlogFollowers, blog_id, <<>>)
    IN /\ Len(followers) = 1
       /\ followers[1] /= store.BlogById[blog_id].created.account
       /\ exists(store.BlogFollowedByAccount, <<followers[1], blog_id>>)
       /\ ~exists(store.BlogFollowedByAccount, <<store.BlogById[blog_id].created.account, blog_id>>)

\* create_blog by owner with an unused slug of valid length and a valid hash:
\* it succeeds, the blog gets the next id (one more than the number of
\* blogs created so far), its only follower is its creator, its score is 0
\* and no reputation changes.
create_blog_works(s, oc, owner, slug, ipfs_hash) ==
  LET blog_id == Cardinality(DOMAIN s.BlogById) + 1
      then(r) ==
        /\ r.ok
        /\ DOMAIN r.st.BlogById = (DOMAIN s.BlogById) \cup {blog_id}
        /\ r.st.BlogById[blog_id].id = blog_id
        /\ r.st.BlogById[blog_id].created.account = owner
        /\ r.st.BlogById[blog_id].slug = slug
        /\ r.st.BlogById[blog_id].followers_count = 1
        /\ get(r.st.BlogFollowers, blog_id, <<>>) = <<owner>>
        /\ is_following_blog(r.st, owner, blog_id)
        /\ r.st.BlogById[blog_id].score = 0
        /\ \A account \in Accounts : reputation_of(r.st, account) = reputation_of(s, account)
  IN then(create_blog(s, oc, owner, slug, ipfs_hash))

\* C14: create_blog with an unused slug of a length within [5, 50] and a
\* content hash of length 46 succeeds; the k-th successful create_blog
\* assigns blog id k; the new blog has followers_count 1 with its creator as
\* sole follower, score 0, and no account's reputation changes.
C14_CreateBlogWorks ==
  /\ DOMAIN store.BlogById = 1..(store.NextBlogId - 1)
  /\ \A owner \in Accounts,
        slug \in {SlugA, SlugB, SlugC, Bytes(DEFAULT_SLUG_MAX_LEN, 100)},
        ipfs_hash \in {HashA, HashB} :
       ~exists(store.BlogIdBySlug, slug)
         => create_blog_works(store, overflow_checks, owner, slug, ipfs_hash)

\* The second blog was made by a follower of the first one, whose creator
\* has gained reputation from that follow.
C14_Witness ==
  /\ store.NextBlogId = 3
  /\ result = "Ok"
  /\ store.BlogById[2].created.account /= store.BlogById[1].created.account
  /\ get(store.BlogFollowers, 2, <<>>) = <<store.BlogById[2].created.account>>
  /\ is_following_blog(store, store.BlogById[2].created.account, 1)
  /\ reputation_of(store, store.BlogById[1].created.account) > 1

\* floor(log2(x)) for x >= 1, by its defining property.
floor_log2(x) == CHOOSE r \in 0..30 : 2^r <= x /\ x < 2^(r + 1)

\* base * weight(action), with r = floor(log2(rep)),
\* d = (rep - 2^r) * 100 / 2^r and base = ((r + 1) * 100 + d) / 100.
expected_score_diff(rep, action) ==
  LET r == floor_log2(rep)
      d == ((rep - 2^r) * 100) \div (2^r)
      base == ((r + 1) * 100 + d) \div 100
  IN base * weight_of_scoring_action(action)

\* C15: for every reputation rep >= 1 up to MaxReputation and every scoring
\* action, get_score_diff(rep, action) is base * weight(action); it is
\* weight(action) at rep = 1 and, for UpvotePost, 80 at 32768, 32769 and
\* 65535 and 85 at 65536.
C15_ScoreDiffFormula ==
  is_some(score_diffs) =>
    /\ \A action \in ScoringAction :
         unwrap(score_diffs)[action] = expected_score_diff(given_reputation, action)
    /\ given_reputation = 1 =>
         \A action \in ScoringAction : unwrap(score_diffs)[action] = weight_of_scoring_action(action)
    /\ given_reputation \in {32768, 32769, 65535} => unwrap(score_diffs)[UpvotePost] = 80
    /\ given_reputation = 65536 => unwrap(score_diffs)[UpvotePost] = 85

\* get_score_diff has returned for the reputation 65536.
C15_Witness ==
  /\ is_some(score_diffs)
  /\ given_reputation = 65536
  /\ unwrap(score_diffs)[UpvotePost] = 85
  /\ unwrap(score_diffs)[DownvotePost] = 17 * DEFAULT_DOWNVOTE_POST_ACTION_WEIGHT

\* change_social_account_reputation(account, scorer, diff, action) on s:
\* without a ledger entry for (scorer, account, action) it stores the
\* floored reputation and records what was applied; with an entry it
\* removes the entry.
reputation_change_as_stated(s, oc, account, scorer, diff, action) ==
  LET key == <<scorer, account, action>>
      ledger == s.AccountReputationDiffByAccount
      rep == reputation_of(s, account)
      then(r) ==
        /\ r.ok
        /\ ~exists(ledger, key) =>
             IF rep + diff <= 1
             THEN /\ r.st.SocialAccountById[account].reputation = 1
                  /\ r.st.AccountReputationDiffByAccount = insert(ledger, key, 0)
             ELSE /\ r.st.SocialAccountById[account].reputation = rep + diff
                  /\ r.st.AccountReputationDiffByAccount = insert(ledger, key, diff)
        /\ exists(ledger, key) => r.st.AccountReputationDiffByAccount = remove(ledger, key)
  IN then(change_social_account_reputation(s, oc, account, scorer, diff, action))

\* C16: change_social_account_reputation(subject, scorer, diff, action) with
\* no ledger entry (scorer, subject, action) stores reputation 1 and the
\* entry 0 when reputation + diff <= 1, and reputation + diff and the entry
\* diff otherwise; with an entry it removes the entry.
C16_ReputationChange ==
  \A account \in Accounts, scorer \in Accounts, diff \in ScoreDiffs, action \in {FollowAccount, DownvotePost} :
    reputation_change_as_stated(store, overflow_checks, account, scorer, diff, action)

\* C17: in every reachable state no entry of the reputation-diff ledger, of
\* the post score ledger or of the comment score ledger holds the value 0.
C17_NoZeroLedgerEntry ==
  /\ \A key \in DOMAIN store.AccountReputationDiffByAccount : store.AccountReputationDiffByAccount[key] /= 0
  /\ \A key \in DOMAIN store.PostScoreByAccount : store.PostScoreByAccount[key] /= 0
  /\ \A key \in DOMAIN store.CommentScoreByAccount : store.CommentScoreByAccount[key] /= 0

\* Two create_post calls by actor with SharedPost(post_id), into the blogs
\* blog1 and blog2, from a state s in which actor has not shared the post:
\* both counters grow by 2, and the score of the post, the reputation of
\* its creator and the SharePost ledger entries change with the first call
\* and stay as they are with the second.
shared_twice(s, oc, actor, post_id, blog1, blog2) ==
  LET creator == s.PostById[post_id].created.account
      score_key == <<actor, post_id, SharePost>>
      reputation_key == <<actor, creator, SharePost>>
      diff == get_score_diff(reputation_of(s, actor), SharePost)
      second(r1, r2) ==
        /\ r1.ok /\ r2.ok
        /\ r2.st.PostById[post_id].shares_count = s.PostById[post_id].shares_count + 2
        /\ get(r2.st.PostSharesByAccount, <<actor, post_id>>, 0) = 2
        /\ r1.st.PostById[post_id].score = s.PostById[post_id].score + diff
        /\ reputation_of(r1.st, creator) = reputation_of(s, creator) + diff
        /\ exists(r1.st.PostScoreByAccount, score_key) /\ r1.st.PostScoreByAccount[score_key] = diff
        /\ exists(r1.st.AccountReputationDiffByAccount, reputation_key)
             <=> ~exists(s.AccountReputationDiffByAccount, reputation_key)
        /\ r2.st.PostById[post_id].score = r1.st.PostById[post_id].score
        /\ reputation_of(r2.st, creator) = reputation_of(r1.st, creator)
        /\ r2.st.PostScoreByAccount = r1.st.PostScoreByAccount
        /\ r2.st.AccountReputationDiffByAccount = r1.st.AccountReputationDiffByAccount
      first(r1) == second(r1, create_post(r1.st, oc, actor, blog2, HashB, SharedPost(post_id)))
  IN first(create_post(s, oc, actor, blog1, HashA, SharedPost(post_id)))

\* C18: when the same actor, not the post's creator, shares the same regular
\* post twice by create_post with SharedPost, the post's shares_count and
\* the actor's PostSharesByAccount counter each grow by 2, while the post's
\* score, its creator's reputation and the SharePost ledger entry are
\* changed by the first share only.
C18_SecondShareScoresNothing ==
  \A actor \in Accounts, post_id \in DOMAIN store.PostById,
     blog1 \in DOMAIN store.BlogById, blog2 \in DOMAIN store.BlogById :
    ( /\ store.PostById[post_id].extension = RegularPost
      /\ store.PostById[post_id].created.account /= actor
      /\ get(store.PostSharesByAccount, <<actor, post_id>>, 0) = 0 )
      => shared_twice(store, overflow_checks, actor, post_id, blog1, blog2)

\* A regular post shared twice by one account that is not its creator.
C18_Witness ==
  \E actor \in Accounts, post_id \in DOMAIN store.PostById :
    /\ store.PostById[post_id].extension = RegularPost
    /\ store.PostById[post_id].created.account /= actor
    /\ get(store.PostSharesByAccount, <<actor, post_id>>, 0) = 2
    /\ store.PostById[post_id].shares_count = 2
    /\ store.PostById[post_id].score = DEFAULT_SHARE_POST_ACTION_WEIGHT
    /\ exists(store.PostScoreByAccount, <<actor, post_id, SharePost>>)

\* A successful create_post by actor with SharedComment(comment_id) adds 1
\* to the stored comment's shares_count and to the actor's counter.
comment_share_counted(s, oc, actor, blog_id, comment_id) ==
  LET then(r) ==
        r.ok =>
          /\ r.st.CommentById[comment_id].shares_count = s.CommentById[comment_id].shares_count + 1
          /\ get(r.st.CommentSharesByAccount, <<actor, comment_id>>, 0)
               = get(s.CommentSharesByAccount, <<actor, comment_id>>, 0) + 1
  IN then(create_post(s, oc, actor, blog_id, HashA, SharedComment(comment_id)))

\* C19: every successful create_post with SharedComment(c), by any actor,
\* adds exactly 1 to the stored comment's shares_count and to
\* CommentSharesByAccount[(actor, c)], so that c.shares_count is always the
\* number of posts in SharedPostIdsByOriginalCommentId[c].
C19_CommentSharesCounted ==
  /\ \A comment_id \in DOMAIN store.CommentById :
       store.CommentById[comment_id].shares_count
         = Len(get(store.SharedPostIdsByOriginalCommentId, comment_id, <<>>))
  /\ \A actor \in Accounts, blog_id \in DOMAIN store.BlogById, comment_id \in DOMAIN store.CommentById :
       comment_share_counted(store, overflow_checks, actor, blog_id, comment_id)

\* create_post with SharedPost(original) is refused and stores no post.
share_refused(s, oc, owner, blog_id, original) ==
  LET then(r) ==
        /\ ~r.ok
        /\ r.err \in {MSG.BLOG_NOT_FOUND, MSG.ORIGINAL_POST_NOT_FOUND, MSG.CANNOT_SHARE_SHARED_POST}
        /\ r.st.PostById = s.PostById
        /\ r.st.NextPostId = s.NextPostId
  IN then(create_post(s, oc, owner, blog_id, HashA, SharedPost(original)))

\* C20: in every reachable state every post with the extension SharedPost(p)
\* references an existing post p whose own extension is RegularPost, and
\* create_post with SharedPost(p) is rejected when p does not exist or is
\* itself a shared post.
C20_SharesReferenceRegularPosts ==
  /\ \A post_id \in DOMAIN store.PostById :
       store.PostById[post_id].extension[1] = "SharedPost" =>
         /\ exists(store.PostById, store.PostById[post_id].extension[2])
         /\ store.PostById[store.PostById[post_id].extension[2]].extension = RegularPost
  /\ \A owner \in Accounts, blog_id \in BlogIds, original \in 1..(MaxPostsShare + 1) :
       (~exists(store.PostById, original) \/ store.PostById[original].extension /= RegularPost)
         => share_refused(store, overflow_checks, owner, blog_id, original)

\* A post that shares a regular post exists, and the last call was refused
\* without storing a post.
C20_Witness ==
  /\ result = "Err"
  /\ store.NextPostId = 3
  /\ store.PostById[1].extension = RegularPost
  /\ store.PostById[2].extension = SharedPost(1)

\* change_post_score and change_comment_score, called for every stored post
\* and comment with its own creator as the actor, return Ok and leave the
\* storage and the entity passed in as they were.
creator_scoring_is_noop(s, oc) ==
  /\ \A post_id \in DOMAIN s.PostById, action \in ScoringAction :
       LET then(r) == r.ok /\ r.st = s /\ r.entity = s.PostById[post_id]
       IN then(change_post_score(s, oc, s.PostById[post_id].created.account, s.PostById[post_id], action))
  /\ \A comment_id \in DOMAIN s.CommentById, action \in ScoringAction :
       LET then(r) == r.ok /\ r.st = s /\ r.entity = s.CommentById[comment_id]
       IN then(change_comment_score(s, oc, s.CommentById[comment_id].created.account,
                                    s.CommentById[comment_id], action))

\* create_post with SharedPost(post_id) by the creator of post_id: the call
\* succeeds, both share counters grow by 1 and nothing else of the post, no
\* blog score, no social account and no ledger entry changes.
own_share_counted(s, oc, blog_id, post_id) ==
  LET creator == s.PostById[post_id].created.account
      then(r) ==
        /\ r.ok
        /\ r.st.PostById[post_id] = [s.PostById[post_id] EXCEPT !.shares_count = @ + 1]
        /\ get(r.st.PostSharesByAccount, <<creator, post_id>>, 0)
             = get(s.PostSharesByAccount, <<creator, post_id>>, 0) + 1
        /\ \A b \in DOMAIN s.BlogById : r.st.BlogById[b].score = s.BlogById[b].score
        /\ r.st.SocialAccountById = s.SocialAccountById
        /\ r.st.AccountReputationDiffByAccount = s.AccountReputationDiffByAccount
        /\ r.st.PostScoreByAccount = s.PostScoreByAccount
  IN then(create_post(s, oc, creator, blog_id, HashA, SharedPost(post_id)))

\* C21: change_post_score and change_comment_score called with the content's
\* creator as the actor return success and change no stored state; sharing
\* one's own regular post succeeds, counts the share and leaves the post's
\* score, the creator's reputation and the SharePost ledger untouched.
C21_CreatorScoringIsNoOp ==
  /\ creator_scoring_is_noop(store, overflow_checks)
  /\ \A blog_id \in DOMAIN store.BlogById, post_id \in DOMAIN store.PostById :
       store.PostById[post_id].extension = RegularPost
         => own_share_counted(store, overflow_checks, blog_id, post_id)

\* A post scored by another account's comment, then shared by its creator:
\* the share is counted, the score and the creator's reputation are those
\* the comment gave, and no SharePost entry exists.
C21_Witness ==
  \E post_id \in DOMAIN store.PostById :
    LET post == store.PostById[post_id]
        creator == post.created.account
    IN /\ get(store.PostSharesByAccount, <<creator, post_id>>, 0) = 1
       /\ post.shares_count = 1
       /\ post.score = DEFAULT_CREATE_COMMENT_ACTION_WEIGHT
       /\ reputation_of(store, creator) = 1 + DEFAULT_CREATE_COMMENT_ACTION_WEIGHT
       /\ ~exists(store.PostScoreByAccount, <<creator, post_id, SharePost>>)
       /\ ~exists(store.AccountReputationDiffByAccount, <<creator, creator, SharePost>>)

\* What a reaction of `kind` by the creator of `entity` does to the entity:
\* the counter of the kind grows by 1 and nothing else changes.
counted(entity, kind) ==
  IF kind = Upvote THEN [entity EXCEPT !.upvotes_count = @ + 1]
  ELSE [entity EXCEPT !.downvotes_count = @ + 1]

\* The reaction with the id NextReactionId of s is stored with its maker and
\* kind, and the counter is moved on.
reaction_recorded(s, t, owner, kind) ==
  /\ t.NextReactionId = s.NextReactionId + 1
  /\ exists(t.ReactionById, s.NextReactionId)
  /\ t.ReactionById[s.NextReactionId].created.account = owner
  /\ t.ReactionById[s.NextReactionId].kind = kind

\* Scores of the blogs, social accounts and the three ledgers are the same
\* in s and t.
scores_untouched(s, t) ==
  /\ \A b \in DOMAIN s.BlogById : t.BlogById[b].score = s.BlogById[b].score
  /\ t.SocialAccountById = s.SocialAccountById
  /\ t.AccountReputationDiffByAccount = s.AccountReputationDiffByAccount
  /\ t.PostScoreByAccount = s.PostScoreByAccount
  /\ t.CommentScoreByAccount = s.CommentScoreByAccount

own_post_reaction(s, oc, post_id, kind) ==
  LET creator == s.PostById[post_id].created.account
      then(r) ==
        /\ r.ok
        /\ r.st.PostById = insert(s.PostById, post_id, counted(s.PostById[post_id], kind))
        /\ reaction_recorded(s, r.st, creator, kind)
        /\ r.st.PostReactionIdByAccount[<<creator, post_id>>] = s.NextReactionId
        /\ r.st.ReactionIdsByPostId[post_id] = Append(get(s.ReactionIdsByPostId, post_id, <<>>), s.NextReactionId)
        /\ scores_untouched(s, r.st)
  IN then(create_post_reaction(s, oc, creator, post_id, kind))

own_comment_reaction(s, oc, comment_id, kind) ==
  LET creator == s.CommentById[comment_id].created.account
      then(r) ==
        /\ r.ok
        /\ r.st.CommentById = insert(s.CommentById, comment_id, counted(s.CommentById[comment_id], kind))
        /\ r.st.PostById = s.PostById
        /\ reaction_recorded(s, r.st, creator, kind)
        /\ r.st.CommentReactionIdByAccount[<<creator, comment_id>>] = s.NextReactionId
        /\ r.st.ReactionIdsByCommentId[comment_id]
             = Append(get(s.ReactionIdsByCommentId, comment_id, <<>>), s.NextReactionId)
        /\ scores_untouched(s, r.st)
  IN then(create_comment_reaction(s, oc, creator, comment_id, kind))

\* C22: create_post_reaction and create_comment_reaction by the content's
\* own creator, who has no reaction on it yet, add 1 to the content's
\* upvotes_count or downvotes_count (per kind) and record the reaction,
\* and leave the content's score, every blog's score, every reputation and
\* the ledgers unchanged.
C22_OwnReactionCountsOnly ==
  /\ \A post_id \in DOMAIN store.PostById, kind \in ReactionKind :
       ~exists(store.PostReactionIdByAccount, <<store.PostById[post_id].created.account, post_id>>)
         => own_post_reaction(store, overflow_checks, post_id, kind)
  /\ \A comment_id \in DOMAIN store.CommentById, kind \in ReactionKind :
       ~exists(store.CommentReactionIdByAccount, <<store.CommentById[comment_id].created.account, comment_id>>)
         => own_comment_reaction(store, overflow_checks, comment_id, kind)

\* A post upvoted by another account and then by its creator: two upvotes
\* are counted, the score and the creator's reputation are those the other
\* account's vote gave.
C22_Witness ==
  \E post_id \in DOMAIN store.PostById :
    LET post == store.PostById[post_id]
        creator == post.created.account
    IN /\ exists(store.PostReactionIdByAccount, <<creator, post_id>>)
       /\ post.upvotes_count = 2
       /\ post.score = DEFAULT_UPVOTE_POST_ACTION_WEIGHT
       /\ reputation_of(store, creator) = 1 + DEFAULT_UPVOTE_POST_ACTION_WEIGHT
       /\ \A action \in ScoringAction : ~exists(store.PostScoreByAccount, <<creator, post_id, action>>)

\* create_comment on post_id with the parent parent_id is refused with the
\* unknown-parent error and the storage stays as it was.
unknown_parent_refused(s, oc, owner, post_id, parent_id) ==
  LET then(r) == ~r.ok /\ r.err = MSG.UNKNOWN_PARENT_COMMENT /\ r.st = s
  IN then(create_comment(s, oc, owner, post_id, Some(parent_id), HashA))

\* C23: create_comment with a parent_id that references no stored comment
\* fails with the unknown-parent error and leaves the state unchanged, for
\* every caller, the post's creator or not; and every stored comment's
\* parent_id, if present, references a stored comment.
C23_UnknownParentRejected ==
  /\ \A owner \in Accounts, post_id \in DOMAIN store.PostById, parent_id \in 1..(MaxComments + 1) :
       ~exists(store.CommentById, parent_id)
         => unknown_parent_refused(store, overflow_checks, owner, post_id, parent_id)
  /\ \A comment_id \in DOMAIN store.CommentById :
       is_some(store.CommentById[comment_id].parent_id)
         => exists(store.CommentById, unwrap(store.CommentById[comment_id].parent_id))

\* unfollow_blog is refused with an error and not by a panic.
unfollow_blog_fails(s, oc, follower, blog_id) ==
  LET then(r) == ~r.ok /\ r.err /= PANIC
  IN then(unfollow_blog(s, oc, follower, blog_id))

\* C24: unfollow_blog by a follower who is not the blog's creator fails
\* with an error whenever the reputation-diff ledger holds no entry
\* (follower, creator, FollowBlog); it never succeeds while skipping the
\* reversal of the score and the reputation.
C24_UnfollowBlogNeedsLedgerEntry ==
  \A follower \in Accounts, blog_id \in DOMAIN store.BlogById :
    ( /\ is_following_blog(store, follower, blog_id)
      /\ store.BlogById[blog_id].created.account /= follower
      /\ ~exists(store.AccountReputationDiffByAccount,
                 <<follower, store.BlogById[blog_id].created.account, FollowBlog>>) )
      => unfollow_blog_fails(store, overflow_checks, follower, blog_id)

\* C25: in every reachable state AccountByProfileUsername maps the username
\* u to the account a exactly when a's stored SocialAccount has a profile
\* whose username is u; two profiles therefore never share a username.
C25_UsernameIndexExact ==
  /\ \A u \in DOMAIN store.AccountByProfileUsername :
       LET a == store.AccountByProfileUsername[u]
       IN /\ exists(store.SocialAccountById, a)
          /\ is_some(store.SocialAccountById[a].profile)
          /\ unwrap(store.SocialAccountById[a].profile).username = u
  /\ \A a \in DOMAIN store.SocialAccountById :
       is_some(store.SocialAccountById[a].profile) =>
         /\ exists(store.AccountByProfileUsername, unwrap(store.SocialAccountById[a].profile).username)
         /\ store.AccountByProfileUsername[unwrap(store.SocialAccountById[a].profile).username] = a
  /\ \A a, b \in DOMAIN store.SocialAccountById :
       ( /\ is_some(store.SocialAccountById[a].profile)
         /\ is_some(store.SocialAccountById[b].profile)
         /\ unwrap(store.SocialAccountById[a].profile).username
              = unwrap(store.SocialAccountById[b].profile).username )
         => a = b

\* An account renamed its profile and another account took the name it
\* gave up.
C25_Witness ==
  \E a, b \in DOMAIN store.SocialAccountById :
    /\ a /= b
    /\ is_some(store.SocialAccountById[a].profile)
    /\ is_some(store.SocialAccountById[b].profile)
    /\ Len(unwrap(store.SocialAccountById[a].profile).edit_history) = 1
    /\ unwrap(store.SocialAccountById[a].profile).edit_history[1].old_data.username
         = Some(unwrap(store.SocialAccountById[b].profile).username)
    /\ store.AccountByProfileUsername[unwrap(store.SocialAccountById[b].profile).username] = b

\* How many times element occurs in vector.
occurrences(vector, element) == Cardinality({i \in 1..Len(vector) : vector[i] = element})

\* How many times post_id occurs in the lists of PostIdsByBlogId together.
RECURSIVE listed_in_blogs(_, _, _)
listed_in_blogs(s, blogs, post_id) ==
  IF blogs = {} THEN 0
  ELSE LET b == CHOOSE x \in blogs : TRUE
       IN occurrences(s.PostIdsByBlogId[b], post_id) + listed_in_blogs(s, blogs \ {b}, post_id)

\* A successful update_post that names another blog than the post's takes
\* the post id out of the old blog's list and puts it into the new one's.
post_moved(s, oc, post_id, blog_id, h) ==
  LET old_blog == s.PostById[post_id].blog_id
      then(r) ==
        r.ok =>
          /\ r.st.PostById[post_id].blog_id = blog_id
          /\ occurrences(r.st.PostIdsByBlogId[old_blog], post_id) = 0
          /\ occurrences(r.st.PostIdsByBlogId[blog_id], post_id) = 1
  IN then(update_post(s, oc, s.PostById[post_id].created.account, post_id, [blog_id |-> Some(blog_id), ipfs_hash |-> h]))

\* C26: in every reachable state each post id appears exactly once across
\* all PostIdsByBlogId lists, in the list of the blog named by the post's
\* blog_id, and the lists hold stored posts only; a successful update_post
\* that changes blog_id from B1 to B2 removes the id from B1's list and adds
\* it to B2's.
C26_PostListedInItsBlog ==
  /\ \A post_id \in DOMAIN store.PostById :
       /\ exists(store.PostIdsByBlogId, store.PostById[post_id].blog_id)
       /\ occurrences(store.PostIdsByBlogId[store.PostById[post_id].blog_id], post_id) = 1
       /\ listed_in_blogs(store, DOMAIN store.PostIdsByBlogId, post_id) = 1
  /\ \A b \in DOMAIN store.PostIdsByBlogId :
       elements(store.PostIdsByBlogId[b]) \subseteq DOMAIN store.PostById
  /\ \A post_id \in DOMAIN store.PostById, blog_id \in BlogIds, h \in Opt({HashB, HashBad}) :
       blog_id /= store.PostById[post_id].blog_id
         => post_moved(store, overflow_checks, post_id, blog_id, h)

\* A post was moved out of a blog that keeps another post.
C26_Witness ==
  \E post_id \in DOMAIN store.PostById :
    LET post == store.PostById[post_id]
    IN /\ Len(post.edit_history) = 1
       /\ is_some(post.edit_history[1].old_data.blog_id)
       /\ unwrap(post.edit_history[1].old_data.blog_id) /= post.blog_id
       /\ store.PostIdsByBlogId[post.blog_id] = <<post_id>>
       /\ Len(store.PostIdsByBlogId[unwrap(post.edit_history[1].old_data.blog_id)]) = 1

\* C27: in every reachable state, for every blog B, B.posts_count equals
\* the number of post ids in PostIdsByBlogId[B].
C27_PostsCountMatchesList ==
  \A blog_id \in DOMAIN store.BlogById :
    store.BlogById[blog_id].posts_count = Len(get(store.PostIdsByBlogId, blog_id, <<>>))

\* C28: in every reachable state, for every post P, P.comments_count equals
\* the number of comment ids in CommentIdsByPostId[P], and for every
\* comment c, c.direct_replies_count equals the number of stored comments
\* whose parent_id is c.
C28_CommentCountsMatch ==
  /\ \A post_id \in DOMAIN store.PostById :
       store.PostById[post_id].comments_count = Len(get(store.CommentIdsByPostId, post_id, <<>>))
  /\ \A comment_id \in DOMAIN store.CommentById :
       store.CommentById[comment_id].direct_replies_count
         = Cardinality({c \in DOMAIN store.CommentById : store.CommentById[c].parent_id = Some(comment_id)})

\* The edit histories of every stored blog, post, comment and profile.
edit_histories(s) ==
  [ blogs |-> [b \in DOMAIN s.BlogById |-> s.BlogById[b].edit_history],
    posts |-> [p \in DOMAIN s.PostById |-> s.PostById[p].edit_history],
    comments |-> [c \in DOMAIN s.CommentById |-> s.CommentById[c].edit_history],
    profiles |-> [a \in DOMAIN s.SocialAccountById |->
                    IF is_some(s.SocialAccountById[a].profile)
                    THEN unwrap(s.SocialAccountById[a].profile).edit_history
                    ELSE <<>>] ]

\* The old_data field of a record: the current value when the update gives
\* another one, None otherwise.
prior_value(field, current) ==
  IF is_some(field) /\ unwrap(field) /= current THEN Some(current) ELSE None

\* A call that ended with r on the storage s: when it succeeded the
\* histories are those of s with `expected` in the place of s's, when it
\* failed they are those of s.
history_logged(s, r, expected) ==
  edit_histories(r.st) = IF r.ok THEN expected ELSE edit_histories(s)

blog_update_logged(s, oc, owner, blog_id, update) ==
  LET blog == s.BlogById[blog_id]
      old_data == [writers |-> prior_value(update.writers, blog.writers),
                   slug |-> prior_value(update.slug, blog.slug),
                   ipfs_hash |-> prior_value(update.ipfs_hash, blog.ipfs_hash)]
      expected == [edit_histories(s) EXCEPT !.blogs[blog_id] =
                     Append(@, [edited |-> new_change(owner), old_data |-> old_data])]
      then(r) == history_logged(s, r, expected)
  IN then(update_blog(s, oc, owner, blog_id, update))

post_update_logged(s, oc, owner, post_id, update) ==
  LET post == s.PostById[post_id]
      old_data == [blog_id |-> prior_value(update.blog_id, post.blog_id),
                   ipfs_hash |-> prior_value(update.ipfs_hash, post.ipfs_hash)]
      expected == [edit_histories(s) EXCEPT !.posts[post_id] =
                     Append(@, [edited |-> new_change(owner), old_data |-> old_data])]
      then(r) == history_logged(s, r, expected)
  IN then(update_post(s, oc, owner, post_id, update))

comment_update_logged(s, oc, owner, comment_id, update) ==
  LET comment == s.CommentById[comment_id]
      expected == [edit_histories(s) EXCEPT !.comments[comment_id] =
                     Append(@, [edited |-> new_change(owner),
                                old_data |-> [ipfs_hash |-> comment.ipfs_hash]])]
      then(r) == history_logged(s, r, expected)
  IN then(update_comment(s, oc, owner, comment_id, update))

profile_update_logged(s, oc, owner, update) ==
  LET profile == unwrap(s.SocialAccountById[owner].profile)
      old_data == [username |-> prior_value(update.username, profile.username),
                   ipfs_hash |-> prior_value(update.ipfs_hash, profile.ipfs_hash)]
      expected == [edit_histories(s) EXCEPT !.profiles[owner] =
                     Append(@, [edited |-> new_change(owner), old_data |-> old_data])]
      then(r) == history_logged(s, r, expected)
  IN then(update_profile(s, oc, owner, update))

\* C29: each successful update_blog, update_post, update_comment and
\* update_profile appends exactly one record to the edit history of the
\* entity it names, with old_data holding the prior value of exactly the
\* fields whose value changed and None for the others; it leaves every
\* other record as it was; and a failed update appends nothing.
C29_EditHistoryExact ==
  /\ \A owner \in Accounts, blog_id \in DOMAIN store.BlogById,
        w \in Opt({<<1>>}), sl \in Opt({SlugA, SlugB, SlugShort}), h \in Opt({HashA, HashB, HashBad}) :
       blog_update_logged(store, overflow_checks, owner, blog_id, [writers |-> w, slug |-> sl, ipfs_hash |-> h])
  /\ \A owner \in Accounts, post_id \in DOMAIN store.PostById,
        b \in Opt(BlogIds), h \in Opt({HashA, HashB, HashBad}) :
       post_update_logged(store, overflow_checks, owner, post_id, [blog_id |-> b, ipfs_hash |-> h])
  /\ \A owner \in Accounts, comment_id \in DOMAIN store.CommentById, h \in {HashA, HashB, HashBad} :
       comment_update_logged(store, overflow_checks, owner, comment_id, [ipfs_hash |-> h])
  /\ \A owner \in DOMAIN store.SocialAccountById,
        u \in Opt({NameA, NameB, NameBad}), h \in Opt({HashA, HashB, HashBad}) :
       is_some(store.SocialAccountById[owner].profile)
         => profile_update_logged(store, overflow_checks, owner, [username |-> u, ipfs_hash |-> h])

\* The four id counters.
counters(s) ==
  [blog |-> s.NextBlogId, post |-> s.NextPostId, comment |-> s.NextCommentId, reaction |-> s.NextReactionId]

\* A call that ended with r on the storage s and that creates an entity of
\* `kind` when it succeeds ("none": it creates nothing): the counter of the
\* kind is 1 higher after a success, and no other counter moves.
counters_follow(s, r, kind) ==
  counters(r.st) = IF r.ok /\ kind /= "none" THEN [counters(s) EXCEPT ![kind] = @ + 1] ELSE counters(s)

\* The results of every public call in state s that creates no blog, post,
\* comment or reaction.
NonCreatingCalls(s, oc) ==
  {update_blog(s, oc, a, b, [writers |-> w, slug |-> sl, ipfs_hash |-> h]) :
     a \in Accounts, b \in BlogIds, w \in Opt({<<1>>}), sl \in Opt({SlugA, SlugB}), h \in Opt({HashA})}
  \cup {follow_blog(s, oc, a, b) : a \in Accounts, b \in BlogIds}
  \cup {unfollow_blog(s, oc, a, b) : a \in Accounts, b \in BlogIds}
  \cup {follow_account(s, oc, a, b) : a \in Accounts, b \in Accounts}
  \cup {unfollow_account(s, oc, a, b) : a \in Accounts, b \in Accounts}
  \cup {update_post(s, oc, a, p, [blog_id |-> b, ipfs_hash |-> h]) :
          a \in Accounts, p \in PostIds, b \in Opt(BlogIds), h \in Opt({HashA, HashB})}
  \cup {update_comment(s, oc, a, c, [ipfs_hash |-> h]) : a \in Accounts, c \in CommentIds, h \in {HashA, HashB}}
  \cup {update_post_reaction(s, oc, a, p, r, k) :
          a \in Accounts, p \in PostIds, r \in DOMAIN s.ReactionById, k \in ReactionKind}
  \cup {update_comment_reaction(s, oc, a, c, r, k) :
          a \in Accounts, c \in CommentIds, r \in DOMAIN s.ReactionById, k \in ReactionKind}
  \cup {delete_post_reaction(s, oc, a, p, r) : a \in Accounts, p \in PostIds, r \in DOMAIN s.ReactionById}
  \cup {delete_comment_reaction(s, oc, a, c, r) : a \in Accounts, c \in CommentIds, r \in DOMAIN s.ReactionById}
  \cup {create_profile(s, oc, a, u, h) : a \in Accounts, u \in {NameA, NameBad}, h \in {HashA}}
  \cup {update_profile(s, oc, a, [username |-> u, ipfs_hash |-> h]) :
          a \in Accounts, u \in Opt({NameA, NameB}), h \in Opt({HashA, HashB})}

\* C30: each id counter is at least 1 and above the id of every stored
\* entity of its kind; a successful create_blog, create_post, create_comment
\* or create_*_reaction adds exactly 1 to the counter of its kind and leaves
\* the others; and no other call, and no call that returns an error, moves
\* a counter.
C30_CountersFollowCreations ==
  /\ \A id \in DOMAIN store.BlogById : 1 <= id /\ id < store.NextBlogId /\ store.BlogById[id].id = id
  /\ \A id \in DOMAIN store.PostById : 1 <= id /\ id < store.NextPostId /\ store.PostById[id].id = id
  /\ \A id \in DOMAIN store.CommentById : 1 <= id /\ id < store.NextCommentId /\ store.CommentById[id].id = id
  /\ \A id \in DOMAIN store.ReactionById : 1 <= id /\ id < store.NextReactionId /\ store.ReactionById[id].id = id
  /\ \A a \in Accounts, sl \in {SlugA, SlugB, SlugShort}, h \in {HashA, HashBad} :
       counters_follow(store, create_blog(store, overflow_checks, a, sl, h), "blog")
  /\ \A a \in Accounts, b \in BlogIds, h \in {HashA, HashBad}, e \in Extensions :
       counters_follow(store, create_post(store, overflow_checks, a, b, h, e), "post")
  /\ \A a \in Accounts, p \in PostIds, c \in Opt(CommentIds), h \in {HashA, HashBad} :
       counters_follow(store, create_comment(store, overflow_checks, a, p, c, h), "comment")
  /\ \A a \in Accounts, p \in PostIds, k \in ReactionKind :
       counters_follow(store, create_post_reaction(store, overflow_checks, a, p, k), "reaction")
  /\ \A a \in Accounts, c \in CommentIds, k \in ReactionKind :
       counters_follow(store, create_comment_reaction(store, overflow_checks, a, c, k), "reaction")
  /\ \A r \in NonCreatingCalls(store, overflow_checks) : counters_follow(store, r, "none")

\* The vector holds no element twice.
no_duplicates(vector) == Cardinality(elements(vector)) = Len(vector)

\* C31: in every reachable state F is in AccountFollowers[T] exactly when T
\* is in AccountsFollowedByAccount[F] and exactly when the flag
\* AccountFollowedByAccount[(F, T)] is set, no list names an account twice,
\* and for every account followers_count, following_accounts_count and
\* following_blogs_count are the lengths of AccountFollowers,
\* AccountsFollowedByAccount and BlogsFollowedByAccount of the account.
C31_AccountFollowGraphConsistent ==
  /\ \A F \in Accounts, T \in Accounts :
       /\ (F \in elements(get(store.AccountFollowers, T, <<>>)))
            <=> (T \in elements(get(store.AccountsFollowedByAccount, F, <<>>)))
       /\ (F \in elements(get(store.AccountFollowers, T, <<>>)))
            <=> is_following_account(store, F, T)
  /\ \A k \in DOMAIN store.AccountFollowedByAccount : k[1] \in Accounts /\ k[2] \in Accounts
  /\ \A a \in Accounts :
       /\ no_duplicates(get(store.AccountFollowers, a, <<>>))
       /\ no_duplicates(get(store.AccountsFollowedByAccount, a, <<>>))
       /\ no_duplicates(get(store.BlogsFollowedByAccount, a, <<>>))
       /\ get_or_new_social_account(store, a).followers_count = Len(get(store.AccountFollowers, a, <<>>))
       /\ get_or_new_social_account(store, a).following_accounts_count
            = Len(get(store.AccountsFollowedByAccount, a, <<>>))
       /\ get_or_new_social_account(store, a).following_blogs_count
            = Len(get(store.BlogsFollowedByAccount, a, <<>>))

\* Two accounts followed each other and one of them unfollowed: one edge of
\* the graph is left, counted on both of its ends.
C31_Witness ==
  \E F \in Accounts, T \in Accounts :
    /\ is_following_account(store, F, T)
    /\ ~is_following_account(store, T, F)
    /\ exists(store.AccountFollowers, F) /\ store.AccountFollowers[F] = <<>>
    /\ store.AccountFollowers[T] = <<F>>
    /\ store.SocialAccountById[F].following_accounts_count = 1
    /\ store.SocialAccountById[T].followers_count = 1
    /\ store.SocialAccountById[T].following_accounts_count = 0

\* The score of post `post_id` and the score of its blog changed by the same
\* amount between the stores s and s1.
blog_score_follows(s, s1, post_id) ==
  (exists(s.PostById, post_id) /\ exists(s.BlogById, s.PostById[post_id].blog_id))
    => s1.PostById[post_id].score - s.PostById[post_id].score
         = s1.BlogById[s.PostById[post_id].blog_id].score
             - s.BlogById[s.PostById[post_id].blog_id].score

\* C32: every successful operation that changes the score of a post
\* (create_post_reaction, create_comment, create_post with a share of the
\* post, into any blog, and a direct change_post_score call, the one that
\* first reverts the opposite vote included) changes the score of the
\* post's blog by the same amount.
C32_BlogScoreFollowsPostScore ==
  \A account \in Accounts, post_id \in PostIds :
    LET follows(r) == r.ok => blog_score_follows(store, r.st, post_id)
    IN /\ \A blog_id \in BlogIds :
            follows(create_post(store, overflow_checks, account, blog_id, HashA, SharedPost(post_id)))
       /\ follows(create_comment(store, overflow_checks, account, post_id, None, HashA))
       /\ \A kind \in {Upvote, Downvote} :
            follows(create_post_reaction(store, overflow_checks, account, post_id, kind))
       /\ \A action \in {UpvotePost, DownvotePost, SharePost} :
            follows(change_post_score_by_id(store, overflow_checks, account, post_id, action))

\* Every entry of the two score ledgers has its entry in the reputation-diff
\* ledger, under the scorer, the creator of the content and the action.
ledger_consistent(s) ==
  /\ \A key \in DOMAIN s.PostScoreByAccount :
       exists(s.PostById, key[2])
         => exists(s.AccountReputationDiffByAccount,
                   <<key[1], s.PostById[key[2]].created.account, key[3]>>)
  /\ \A key \in DOMAIN s.CommentScoreByAccount :
       exists(s.CommentById, key[2])
         => exists(s.AccountReputationDiffByAccount,
                   <<key[1], s.CommentById[key[2]].created.account, key[3]>>)

\* C33: in every state reached through the public operations each
\* score-ledger entry (actor, content, action) has its reputation-diff
\* entry (actor, creator of the content, action), and no public operation
\* fails with the reputation-diff-not-found error.
C33_LedgersConsistent ==
  /\ ledger_consistent(store)
  /\ \A r \in PublicCalls(store, overflow_checks) : r.err /= MSG.REPUTATION_DIFF_NOT_FOUND

\* The number of stored reactions of the kind among the reaction ids `ids`.
live_of_kind(s, ids, kind) ==
  Cardinality({i \in 1..Len(ids) : exists(s.ReactionById, ids[i]) /\ s.ReactionById[ids[i]].kind = kind})

\* The vote counters of the post or comment `entity` match the reaction ids.
votes_counted(s, entity, ids) ==
  /\ entity.upvotes_count = live_of_kind(s, ids, Upvote)
  /\ entity.downvotes_count = live_of_kind(s, ids, Downvote)

\* The call with result r did not decrement a vote counter of `before` that
\* was 0: it did not panic on the subtraction and no counter wrapped around.
no_decrement_at_zero(r, before, after) ==
  /\ r.err /= PANIC
  /\ r.ok => /\ after.upvotes_count <= before.upvotes_count + 1
             /\ after.downvotes_count <= before.downvotes_count + 1

\* C34: in every reachable state the vote counters of every post and of
\* every comment are the numbers of live Upvote and Downvote reactions of
\* its reaction-id list, and no update or delete reaction call, whatever its
\* content id and reaction id, decrements a vote counter that is 0.
C34_VoteCountersMatchReactions ==
  /\ \A post_id \in DOMAIN store.PostById :
       votes_counted(store, store.PostById[post_id], get(store.ReactionIdsByPostId, post_id, <<>>))
  /\ \A comment_id \in DOMAIN store.CommentById :
       votes_counted(store, store.CommentById[comment_id], get(store.ReactionIdsByCommentId, comment_id, <<>>))
  /\ \A owner \in Accounts, reaction_id \in ReactionIds :
       /\ \A post_id \in DOMAIN store.PostById :
            LET kept(r) == no_decrement_at_zero(r, store.PostById[post_id], r.st.PostById[post_id])
            IN /\ kept(delete_post_reaction(store, overflow_checks, owner, post_id, reaction_id))
               /\ \A new_kind \in ReactionKind :
                    kept(update_post_reaction(store, overflow_checks, owner, post_id, reaction_id, new_kind))
       /\ \A comment_id \in DOMAIN store.CommentById :
            LET kept(r) == no_decrement_at_zero(r, store.CommentById[comment_id], r.st.CommentById[comment_id])
            IN /\ kept(delete_comment_reaction(store, overflow_checks, owner, comment_id, reaction_id))
               /\ \A new_kind \in ReactionKind :
                    kept(update_comment_reaction(store, overflow_checks, owner, comment_id, reaction_id, new_kind))

\* The entry of the reaction index m for (account, id) names a stored
\* reaction of the account that the list ids_by_id[id] holds.
index_entry_sound(s, m, ids_by_id, key) ==
  /\ exists(s.ReactionById, m[key])
  /\ s.ReactionById[m[key]].created.account = key[1]
  /\ m[key] \in elements(get(ids_by_id, key[2], <<>>))

\* Between s and the store of result r, no reaction other than the one the
\* index m holds for (owner, id) was changed or removed.
only_indexed_modified(s, r, m, owner, id) ==
  \A reaction_id \in DOMAIN s.ReactionById :
    (exists(m, <<owner, id>>) /\ m[<<owner, id>>] = reaction_id)
      \/ (exists(r.st.ReactionById, reaction_id)
            /\ r.st.ReactionById[reaction_id] = s.ReactionById[reaction_id])

\* C35: in every reachable state each entry of PostReactionIdByAccount and
\* of CommentReactionIdByAccount names a reaction that is stored, was
\* created by the account of the entry and is listed for the same post or
\* comment; and an update or delete reaction call changes no reaction but
\* the one indexed for the caller and the content.
C35_ReactionIndexSound ==
  /\ \A key \in DOMAIN store.PostReactionIdByAccount :
       index_entry_sound(store, store.PostReactionIdByAccount, store.ReactionIdsByPostId, key)
  /\ \A key \in DOMAIN store.CommentReactionIdByAccount :
       index_entry_sound(store, store.CommentReactionIdByAccount, store.ReactionIdsByCommentId, key)
  /\ \A owner \in Accounts, reaction_id \in ReactionIds :
       /\ \A post_id \in PostIds :
            LET only(r) == only_indexed_modified(store, r, store.PostReactionIdByAccount, owner, post_id)
            IN /\ only(delete_post_reaction(store, overflow_checks, owner, post_id, reaction_id))
               /\ \A new_kind \in ReactionKind :
                    only(update_post_reaction(store, overflow_checks, owner, post_id, reaction_id, new_kind))
       /\ \A comment_id \in CommentIds :
            LET only(r) == only_indexed_modified(store, r, store.CommentReactionIdByAccount, owner, comment_id)
            IN /\ only(delete_comment_reaction(store, overflow_checks, owner, comment_id, reaction_id))
               /\ \A new_kind \in ReactionKind :
                    only(update_comment_reaction(store, overflow_checks, owner, comment_id, reaction_id, new_kind))

\* C36: for every reputation (here every sampled one below 2^31) the
\* product (rep - 2^r) * 100 of get_score_diff fits in a u32, and the value
\* returned for every action of the default weights fits in an i16.
C36_ScaledExcessFitsU32 ==
  is_some(score_diffs) =>
    /\ ~overflowing_mul_u32(given_reputation - 2^log_2(given_reputation), 100).overflow
    /\ \A action \in ScoringAction :
         /\ is_some(unwrap(score_diffs)[action])
         /\ unwrap(unwrap(score_diffs)[action]) \in I16_MIN..I16_MAX

\* The vote that change_post_score and change_comment_score revert before
\* they apply `action`; the action itself when there is none.
opposite_of(action) ==
  CASE action = UpvotePost -> DownvotePost
    [] action = DownvotePost -> UpvotePost
    [] action = UpvoteComment -> DownvoteComment
    [] action = DownvoteComment -> UpvoteComment
    [] OTHER -> action

\* The number of nested calls that change_post_score (on PostScoreByAccount)
\* or change_comment_score (on CommentScoreByAccount) makes for the content
\* `id` of `creator`: none for the creator and in the reversal branch, one
\* more than the nested call makes when the opposite vote is recorded.
RECURSIVE nested_calls(_, _, _, _, _)
nested_calls(ledger, creator, account, id, action) ==
  IF creator = account THEN 0
  ELSE IF exists(ledger, <<account, id, action>>) THEN 0
  ELSE IF opposite_of(action) /= action /\ exists(ledger, <<account, id, opposite_of(action)>>)
  THEN 1 + nested_calls(ledger, creator, account, id, opposite_of(action))
  ELSE 0

\* C37: a call of change_post_score or change_comment_score makes at most
\* one nested call, for the opposite vote, and when it makes one the
\* opposite vote's score-ledger entry is removed by it.
C37_OneNestedReversal ==
  /\ \A account \in Accounts, post_id \in DOMAIN store.PostById, action \in {UpvotePost, DownvotePost} :
       LET post == store.PostById[post_id]
           calls == nested_calls(store.PostScoreByAccount, post.created.account, account, post_id, action)
           reverted(r) == ~exists(r.st.PostScoreByAccount, <<account, post_id, opposite_of(action)>>)
       IN /\ calls <= 1
          /\ (calls = 1 /\ exists(store.BlogById, post.blog_id))
               => reverted(change_post_score(store, overflow_checks, account, post, action))
  /\ \A account \in Accounts, comment_id \in DOMAIN store.CommentById,
        action \in {UpvoteComment, DownvoteComment} :
       LET comment == store.CommentById[comment_id]
           calls == nested_calls(store.CommentScoreByAccount, comment.created.account, account,
                                 comment_id, action)
           reverted(r) == ~exists(r.st.CommentScoreByAccount, <<account, comment_id, opposite_of(action)>>)
       IN /\ calls <= 1
          /\ calls = 1 => reverted(change_comment_score(store, overflow_checks, account, comment, action))

\* The wallets out of which execute_transaction transferred the value of
\* the transaction, one index of Executions for each transfer.
executions_of(s, tx_id) == {i \in 1..Len(s.Executions) : s.Executions[i].tx_id = tx_id}

\* C38: over any sequence of submit_transaction and confirm_transaction
\* calls, with any wallet and transaction ids, the value of a transaction
\* is transferred at most once, only out of the wallet the transaction was
\* submitted to, and the transaction is in the executed list of at most one
\* wallet.
C38_ExecutedAtMostOnce ==
  \A tx_id \in DOMAIN store.TxById :
    /\ Cardinality(executions_of(store, tx_id)) <= 1
    /\ \A i \in executions_of(store, tx_id) : store.Executions[i].wallet_id = store.SubmittedTo[tx_id]
    /\ Cardinality({wallet_id \in DOMAIN store.ExecutedTxIdsByWalletId :
                      contains(store.ExecutedTxIdsByWalletId[wallet_id], tx_id)}) <= 1

\* The owners of the wallet that confirmed the transaction.
confirming_owners(wallet, transaction) ==
  {wallet.owners[i] : i \in 1..Len(wallet.owners)}
    \cap {transaction.confirmed_by[i] : i \in 1..Len(transaction.confirmed_by)}

\* C39: a transaction is executed as soon as the owners of its wallet that
\* confirmed it, the submitter included, are confirms_required many, for
\* every confirms_required from 1 to the number of owners: no transaction
\* is pending and not executed while it has at least confirms_required
\* confirmations and its wallet holds the value.
C39_ExecutedOnceConfirmed ==
  \A wallet_id \in DOMAIN store.PendingTxIdsByWalletId :
    \A i \in 1..Len(store.PendingTxIdsByWalletId[wallet_id]) :
      LET wallet == store.WalletById[wallet_id]
          transaction == store.TxById[store.PendingTxIdsByWalletId[wallet_id][i]]
      IN ~ /\ ~transaction.executed
           /\ Cardinality(confirming_owners(wallet, transaction)) >= wallet.confirms_required
           /\ transaction.value <= free_balance(store, wallet_id)

====
